---- MODULE Spec2Model ----
(***************************************************************************)
(* A model of the SPDK RAID virtual block device core                      *)
(* (module/bdev/raid/bdev_raid.c).                                         *)
(*                                                                         *)
(* SpecIO models the data path of one front-end request on one executor    *)
(* channel: raid_bdev_submit_request, the RESET fan-out with its -ENOMEM   *)
(* wait queue, and the partial-completion aggregator.                      *)
(***************************************************************************)
EXTENDS Integers, Sequences, FiniteSets, TLC

\* Largest number of base slots (num_base_bdevs) of an array in the model.
MaxBase == 3

\* Largest value a level module loads into base_bdev_io_remaining.
MaxParts == 3

\* Largest number of times one request is put on a wait queue (-ENOMEM).
MaxWaits == 2

BdevIoStatus == {"SUCCESS", "FAILED", "ABORTED"}

\* Return values of a base submission: 0, -ENOMEM, any other error.
SubmitRc == {"OK", "ENOMEM", "ERR"}

IoTypes == {"READ", "WRITE", "FLUSH", "RESET", "INVALID"}

\* Executor threads that may hold a channel of the array.
NumThreads == 2

\* Number of arrays created in one run.
MaxCreates == 1

\* Number of superblock writes issued in one run.
MaxWrites == 2

\* Number of failures the host reports in one run (I/O errors, a refused
\* start, registration or quiesce).
MaxFaults == 1

VARIABLES
    raid_bdev,        \* the array (struct raid_bdev), the host objects around it
                      \* and the history of its callbacks
    raid_io,          \* struct raid_bdev_io of the request, with its history
    base_channel      \* raid_ch->base_channel[i] != NULL, of the request's channel

iovars == <<raid_io, base_channel>>
vars == <<raid_bdev, raid_io, base_channel>>

num_base_bdevs == raid_bdev.num_base_bdevs

AllSlots == 0 .. (MaxBase - 1)
Slots == 0 .. (num_base_bdevs - 1)
Threads == 1 .. NumThreads

\* The app thread (spdk_thread_get_app_thread); the executor threads are
\* Threads.
AppThread == 0

\* uint8_t arithmetic of the counters
U8Inc(x) == (x + 1) % 256
U8Dec(x) == (x + 255) % 256

----------------------------------------------------------------------------
(***************************************************************************)
(* Control path.  The record raid_bdev holds the fields of struct          *)
(* raid_bdev (source names), the host objects the core talks to (h_...),   *)
(* and history fields (g_...):                                             *)
(*   in_list      the array is linked in g_raid_bdev_list                  *)
(*   allocated    raid_bdev_free has not been called on it                 *)
(*   h_registered the array is registered with the host bdev layer         *)
(*   h_io_device  the array is registered as an io-device                  *)
(*   h_started    the level module is started                              *)
(*   h_unreg      position of the host's unregistration of the array       *)
(*   h_unreg_cb   the callback given to spdk_bdev_unregister               *)
(*   h_pipe       position of the quiesce sequence of every slot           *)
(*   h_check_sb   a superblock read of raid_bdev_configure_base_bdev is    *)
(*                outstanding for the slot                                 *)
(*   h_cfg_write  the superblock write of raid_bdev_configure is in flight *)
(*   h_chan       the channel of every executor thread                     *)
(*   h_present    the base bdevs registered in the system                  *)
(*   h_examine    base bdevs whose examine read is outstanding             *)
(*   h_examine_ctx  base bdevs on which an examine holds its transient     *)
(*                descriptor and channel                                   *)
(*   h_examine_done  number of spdk_bdev_module_examine_done calls made    *)
(*                for the examine of every base bdev (2 stands for more    *)
(*                than one)                                                *)
(*   h_disk       the superblock region on every base bdev                 *)
(*   h_rpc        the context of the bdev_raid_create request: remaining   *)
(*                and status of the source, the adds whose callback is     *)
(*                outstanding, the responses sent, the frees of the        *)
(*                context and what went wrong with it                      *)
(*   h_msg        the message raid_bdev_destruct sent to the app thread is *)
(*                in the app thread's queue                                *)
(*   g_thread     the thread the last step ran on                          *)
(*   g_event      the callback delivered by the last step, with the state  *)
(*                it was delivered in                                      *)
(*   g_fatal      the remove request that took the array offline and the   *)
(*                deliveries of its callback                               *)
(*   g_creates    number of arrays created so far                           *)
(*   g_writes     number of superblock writes issued so far                 *)
(*   g_faults     number of failures the host reported so far               *)
(*   g_failed     the assertions of the source that did not hold           *)
(*   g_uaf        a callback ran on an array that had been freed           *)
(*   g_stale      callbacks are outstanding for an array that was freed    *)
(*                before the array of the record was created               *)
(*   g_double_free raid_bdev_free ran twice on the array                   *)
(*   crashed      the process is gone                                      *)
(* A base bdev is named by a number; its uuid is the same number.  The     *)
(* model follows the arrays of one name: the array an administrator        *)
(* creates and the array the superblocks on the base bdevs describe have   *)
(* the same name, and the superblocks carry one array uuid.                *)
(***************************************************************************)

\* NULL name / null uuid / NULL descriptor
NoBdev == 0 - 1

\* uuid of a former member that is no longer in the system
GoneUuid == 0 - 2

Bdevs == AllSlots

\* struct raid_bdev_module of the level modules: base_bdevs_min,
\* base_bdevs_constraint {type, value}, and whether stop() returns false
\* (the module calls raid_bdev_module_stop_done later).
Raid0Module == [level |-> "raid0", base_bdevs_min |-> 1, type |-> "UNSET", value |-> 0, async_stop |-> FALSE]
Raid1Module == [level |-> "raid1", base_bdevs_min |-> 1, type |-> "MIN_OPERATIONAL", value |-> 1, async_stop |-> FALSE]
Raid5fModule == [level |-> "raid5f", base_bdevs_min |-> 3, type |-> "MAX_REMOVED", value |-> 1, async_stop |-> TRUE]

Modules == {Raid0Module, Raid1Module, Raid5fModule}

\* calloc'ed struct raid_base_bdev_info
NoBaseInfo ==
    [ name |-> NoBdev, uuid |-> NoBdev, desc |-> NoBdev, is_configured |-> FALSE,
      remove_scheduled |-> FALSE, remove_cb |-> FALSE ]

\* struct raid_bdev_superblock: sequence number, one entry per slot
\* (state, uuid); uuid_set is the array uuid being non-null; on is
\* raid_bdev->sb != NULL.
NoSb ==
    [ on |-> FALSE, uuid_set |-> FALSE, seq_number |-> 0, num_base_bdevs |-> 0,
      module |-> Raid0Module,
      state |-> [i \in AllSlots |-> "NONE"], uuid |-> [i \in AllSlots |-> NoBdev] ]

ZeroedSb == [NoSb EXCEPT !.on = TRUE]

NoCb == [kind |-> "none", slot |-> 0]
RemoveCb(s) == [kind |-> "remove", slot |-> s]
DeleteCb == [kind |-> "delete", slot |-> 0]

NoEvent == [kind |-> "none", slot |-> 0, status |-> "none", via |-> "none"]

NoFatal == [slot |-> NoBdev, calls |-> 0, status |-> "none", unregistered |-> FALSE, closed |-> FALSE]

NoPipe == [ph |-> "none", at |-> 0]

NoChan == [open |-> FALSE, base |-> [i \in AllSlots |-> FALSE]]

\* No bdev_raid_create request has been made.
NoRpcCtx ==
    [ called |-> FALSE, alloc |-> FALSE, remaining |-> 0, status |-> "0",
      pending |-> {}, failed |-> FALSE,
      responses |-> 0, response |-> "none", freed |-> 0,
      underflow |-> FALSE, uaf |-> FALSE ]

\* Before any array exists: the module's globals and the host around it.
NoArray ==
    [ in_list |-> FALSE, allocated |-> FALSE,
      num_base_bdevs |-> 0, min_base_bdevs_operational |-> 0,
      num_base_bdevs_discovered |-> 0, num_base_bdevs_operational |-> 0,
      state |-> "CONFIGURING", destroy_started |-> FALSE,
      module |-> Raid0Module, sb |-> NoSb,
      base_bdev_info |-> [i \in AllSlots |-> NoBaseInfo],
      g_shutdown_started |-> FALSE,
      h_registered |-> FALSE, h_io_device |-> FALSE, h_started |-> FALSE,
      h_unreg |-> "none", h_unreg_cb |-> NoCb,
      h_pipe |-> [i \in AllSlots |-> NoPipe],
      h_check_sb |-> [i \in AllSlots |-> FALSE], h_cfg_write |-> FALSE,
      h_chan |-> [t \in Threads |-> NoChan],
      h_present |-> [b \in Bdevs |-> FALSE], h_examine |-> [b \in Bdevs |-> FALSE],
      h_examine_ctx |-> [b \in Bdevs |-> FALSE],
      h_examine_done |-> [b \in Bdevs |-> 0],
      h_disk |-> [b \in Bdevs |-> NoSb],
      h_rpc |-> NoRpcCtx, h_msg |-> FALSE,
      g_event |-> NoEvent, g_fatal |-> NoFatal, g_thread |-> AppThread,
      g_creates |-> 0, g_writes |-> 0, g_faults |-> 0, g_failed |-> {}, g_uaf |-> FALSE, g_stale |-> FALSE, g_double_free |-> FALSE, crashed |-> FALSE ]

\* assert(cond): a failed assertion is recorded; the build without
\* assertions continues.
expect(rb, cond, label) ==
    IF cond THEN rb ELSE [rb EXCEPT !.g_failed = @ \cup {label}]

\* The host reported a failure to the handler.
fault(rb) == [rb EXCEPT !.g_faults = @ + 1]

\* An asynchronous operation of the array is outstanding.
Pending(rb) ==
    \/ rb.h_unreg # "none"
    \/ rb.h_cfg_write
    \/ \E i \in AllSlots : rb.h_check_sb[i] \/ rb.h_pipe[i].ph # "none"

\* Delivery of a callback: the remove callback of a slot, the delete
\* callback, the host's own callback, or none.  'via' tells who delivers:
\* the caller itself ("direct"), raid_bdev_remove_base_bdev_done ("done")
\* or the host at the end of an unregistration ("unregister").
invoke(rb, cb, status, via) ==
    IF cb.kind = "none" THEN rb
    ELSE LET r1 == [rb EXCEPT !.g_event = [kind |-> cb.kind, slot |-> cb.slot,
                                           status |-> status, via |-> via]]
         IN  IF cb.kind = "remove" /\ cb.slot = rb.g_fatal.slot
             THEN [r1 EXCEPT !.g_fatal =
                      [@ EXCEPT !.calls = IF @ < 2 THEN @ + 1 ELSE @,
                                !.status = status,
                                !.unregistered = ~rb.h_registered /\ ~rb.h_io_device
                                                 /\ rb.h_unreg = "none",
                                !.closed = rb.base_bdev_info[cb.slot].desc = NoBdev]]
             ELSE r1

raid_bdev_free_base_bdev_resource(rb, s) ==
    LET bi == rb.base_bdev_info[s]
        r1 == [rb EXCEPT !.base_bdev_info[s].name = NoBdev,
                         !.base_bdev_info[s].uuid =
                             IF rb.state # "CONFIGURING" THEN NoBdev ELSE @]
    IN  IF bi.desc = NoBdev THEN r1
        ELSE LET r2 == [r1 EXCEPT !.base_bdev_info[s].desc = NoBdev]
             IN  IF bi.is_configured
                 THEN [expect(r2, r2.num_base_bdevs_discovered # 0, "discovered_nonzero")
                          EXCEPT !.num_base_bdevs_discovered = U8Dec(@),
                                 !.base_bdev_info[s].is_configured = FALSE]
                 ELSE r2

RECURSIVE free_base_bdevs(_, _, _)
\* RAID_FOR_EACH_BASE_BDEV { if (cond(slot)) free_base_bdev_resource }
free_base_bdevs(rb, which, i) ==
    IF i >= rb.num_base_bdevs THEN rb
    ELSE free_base_bdevs(IF i \in which THEN raid_bdev_free_base_bdev_resource(rb, i) ELSE rb,
                         which, i + 1)

raid_bdev_cleanup(rb) ==
    LET r1 == expect(rb, rb.state # "ONLINE", "cleanup_not_online")
        r2 == expect(r1, \A i \in 0 .. (rb.num_base_bdevs - 1) :
                             rb.base_bdev_info[i].desc = NoBdev, "cleanup_desc_null")
    IN  [r2 EXCEPT !.in_list = FALSE,
                   !.base_bdev_info =
                       [i \in AllSlots |-> [@[i] EXCEPT !.name = NoBdev]]]

\* The fields of struct raid_bdev, zeroed; everything else is kept.
zeroed(rb) ==
    [rb EXCEPT !.num_base_bdevs = 0, !.min_base_bdevs_operational = 0,
               !.num_base_bdevs_discovered = 0, !.num_base_bdevs_operational = 0,
               !.state = "CONFIGURING", !.destroy_started = FALSE,
               !.module = Raid0Module, !.sb = NoSb,
               !.base_bdev_info = [i \in AllSlots |-> NoBaseInfo]]

\* The contents of the freed memory matter only to the callbacks that are
\* still to run on it.
raid_bdev_free(rb) ==
    LET r1 == [rb EXCEPT !.allocated = FALSE, !.g_double_free = @ \/ ~rb.allocated]
    IN  IF Pending(r1) THEN r1 ELSE zeroed(r1)

raid_bdev_cleanup_and_free(rb) == raid_bdev_free(raid_bdev_cleanup(rb))

\* module->stop(raid_bdev)
module_stop(rb) == [rb EXCEPT !.h_started = FALSE]

\* spdk_bdev_destruct_done(bdev, 0): the host finishes the unregistration
\* and delivers the callback of spdk_bdev_unregister.
spdk_bdev_destruct_done(rb) ==
    LET r1 == [rb EXCEPT !.h_registered = FALSE, !.h_unreg = "none", !.h_unreg_cb = NoCb]
    IN  invoke(r1, rb.h_unreg_cb, "0", "unregister")

raid_bdev_io_device_unregister_cb(rb) ==
    LET r0 == [rb EXCEPT !.h_io_device = FALSE]
    IN  IF r0.num_base_bdevs_discovered = 0
        THEN raid_bdev_free(spdk_bdev_destruct_done(raid_bdev_cleanup(r0)))
        ELSE spdk_bdev_destruct_done(r0)

raid_bdev_module_stop_done(rb) ==
    IF rb.state # "CONFIGURING"
    THEN [rb EXCEPT !.h_unreg = "io_device"]
    ELSE [rb EXCEPT !.h_unreg = "stalled"]

\* _raid_bdev_destruct: the body of the destruct, run on the app thread.
raid_bdev_destruct(rb) ==
    LET which == {i \in AllSlots : rb.g_shutdown_started \/ rb.base_bdev_info[i].remove_scheduled}
        r1 == free_base_bdevs(rb, which, 0)
        r2 == IF r1.g_shutdown_started THEN [r1 EXCEPT !.state = "OFFLINE"] ELSE r1
        r3 == module_stop(r2)
    IN  IF r3.module.async_stop THEN [r3 EXCEPT !.h_unreg = "stopping"]
        ELSE raid_bdev_module_stop_done(r3)

\* A destruct that runs _raid_bdev_destruct on the calling thread, whatever
\* that thread is.
destruct_on_calling_thread(rb, t) == raid_bdev_destruct(rb)

\* raid_bdev_destruct called on thread t: spdk_thread_exec_msg runs
\* _raid_bdev_destruct at once when t is the app thread and queues it for
\* the app thread otherwise.
raid_bdev_destruct_on(rb, t) ==
    IF t = AppThread THEN raid_bdev_destruct(rb)
    ELSE [rb EXCEPT !.h_msg = TRUE]

\* spdk_bdev_unregister(bdev, cb_fn, cb_arg): a bdev that is not registered
\* or is already being unregistered answers the callback with an error.
spdk_bdev_unregister(rb, cb) ==
    IF rb.h_registered /\ rb.h_unreg = "none"
    THEN [rb EXCEPT !.h_unreg = "requested", !.h_unreg_cb = cb]
    ELSE invoke(rb, cb, "EBUSY", "direct")

\* Variant: the callback is delivered when the unregistration is requested.
deconfigure_early_cb(rb, cb) ==
    IF rb.state # "ONLINE" THEN invoke(rb, cb, "0", "direct")
    ELSE LET r1 == [rb EXCEPT !.state = "OFFLINE"]
         IN  invoke(spdk_bdev_unregister(r1, NoCb), cb, "0", "direct")

raid_bdev_deconfigure(rb, cb) ==
    IF rb.state # "ONLINE" THEN invoke(rb, cb, "0", "direct")
    ELSE LET r1 == [rb EXCEPT !.state = "OFFLINE"]
         IN  spdk_bdev_unregister(expect(r1, r1.num_base_bdevs_discovered # 0, "deconfigure_discovered"), cb)

\* The switch on module->base_bdevs_constraint.type and the range check of
\* _raid_bdev_create; min_operational is a uint8_t.  0 stands for -EINVAL.
\* Variant: the difference is kept as a signed integer.
min_operational_signed(n, module) ==
    LET m == CASE module.type = "MAX_REMOVED" -> n - module.value
               [] module.type = "MIN_OPERATIONAL" -> module.value
               [] OTHER -> n
    IN  IF module.type = "UNSET" /\ module.value # 0 THEN 0
        ELSE IF m = 0 \/ m > n THEN 0 ELSE m

min_operational(n, module) ==
    LET m == CASE module.type = "MAX_REMOVED" -> (n - module.value) % 256
               [] module.type = "MIN_OPERATIONAL" -> module.value % 256
               [] OTHER -> n
    IN  IF module.type = "UNSET" /\ module.value # 0 THEN 0
        ELSE IF m = 0 \/ m > n THEN 0 ELSE m

create_ok(rb, n, module) ==
    /\ ~rb.in_list
    /\ n >= module.base_bdevs_min
    /\ min_operational(n, module) # 0

\* _raid_bdev_create on success: a zeroed array in CONFIGURING, linked in
\* the list.  The host objects and the history are kept.
\* The callbacks still outstanding for a freed array do not belong to the
\* new one.
raid_bdev_create_common(rb, n, module, superblock_enabled) ==
    [rb EXCEPT !.in_list = TRUE, !.allocated = TRUE, !.g_creates = @ + 1,
               !.g_stale = @ \/ (~rb.allocated /\ Pending(rb)),
               !.h_cfg_write = FALSE,
               !.h_check_sb = [i \in AllSlots |-> FALSE],
               !.h_pipe = [i \in AllSlots |-> NoPipe],
               !.h_unreg = "none", !.h_unreg_cb = NoCb,
               !.num_base_bdevs = n,
               !.min_base_bdevs_operational = min_operational(n, module),
               !.num_base_bdevs_discovered = 0, !.num_base_bdevs_operational = 0,
               !.state = "CONFIGURING", !.destroy_started = FALSE,
               !.module = module,
               !.sb = IF superblock_enabled THEN ZeroedSb ELSE NoSb,
               !.base_bdev_info = [i \in AllSlots |-> NoBaseInfo]]

raid_bdev_create(rb, n, module, superblock_enabled) ==
    IF ~create_ok(rb, n, module) THEN rb
    ELSE [raid_bdev_create_common(rb, n, module, superblock_enabled)
             EXCEPT !.num_base_bdevs_operational = n]

\* The value raid_bdev_create returns.
raid_bdev_create_rc(rb, n, module) ==
    IF rb.in_list THEN "EEXIST"
    ELSE IF n < module.base_bdevs_min THEN "EINVAL"
    ELSE IF min_operational(n, module) = 0 THEN "EINVAL"
    ELSE "0"

\* raid_bdev_init_superblock (bdev_raid_sb.c): the array uuid and one
\* CONFIGURED entry per slot carrying the uuid of the slot.
raid_bdev_init_superblock(rb) ==
    [rb EXCEPT !.sb = [on |-> TRUE, uuid_set |-> TRUE, seq_number |-> 0,
                       num_base_bdevs |-> rb.num_base_bdevs, module |-> rb.module,
                       state |-> [i \in AllSlots |->
                                    IF i < rb.num_base_bdevs THEN "CONFIGURED" ELSE "NONE"],
                       uuid |-> [i \in AllSlots |->
                                    IF i < rb.num_base_bdevs THEN rb.base_bdev_info[i].uuid
                                    ELSE NoBdev]]]

\* raid_bdev_write_superblock (bdev_raid_sb.c): the sequence number is
\* incremented before the I/O is issued.
raid_bdev_write_superblock(rb) ==
    [rb EXCEPT !.sb.seq_number = @ + 1, !.g_writes = @ + 1]

\* The write has reached every member that is bound when it completes.
superblock_written(rb) ==
    [rb EXCEPT !.h_disk = [b \in Bdevs |->
         IF \E i \in AllSlots : i < rb.num_base_bdevs /\ rb.base_bdev_info[i].desc = b
         THEN rb.sb ELSE @[b]]]

raid_bdev_configure_cont(rb, in) ==
    LET r1 == [rb EXCEPT !.state = "ONLINE", !.h_io_device = TRUE]
    IN  IF in.register_ok /\ ~r1.h_registered
        THEN [r1 EXCEPT !.h_registered = TRUE]
        ELSE [fault(module_stop(r1)) EXCEPT !.h_io_device = FALSE, !.state = "CONFIGURING"]

raid_bdev_configure_write_sb_cb(rb, status, in) ==
    LET r1 == [rb EXCEPT !.h_cfg_write = FALSE]
    IN  IF status = "0" THEN raid_bdev_configure_cont(superblock_written(r1), in)
        ELSE fault(module_stop(r1))

raid_bdev_configure(rb, in) ==
    LET r1 == expect(rb, rb.state = "CONFIGURING", "configure_state")
        r2 == expect(r1, r1.num_base_bdevs_discovered = r1.num_base_bdevs_operational,
                     "configure_discovered")
    IN  IF ~in.start_ok THEN fault(r2)
        ELSE LET r3 == [r2 EXCEPT !.h_started = TRUE]
             IN  IF r3.sb.on
                 THEN LET r4 == IF ~r3.sb.uuid_set THEN raid_bdev_init_superblock(r3) ELSE r3
                      IN  [raid_bdev_write_superblock(r4) EXCEPT !.h_cfg_write = TRUE]
                 ELSE raid_bdev_configure_cont(r3, in)

raid_bdev_configure_base_bdev_cont(rb, s, in) ==
    LET r1 == [rb EXCEPT !.base_bdev_info[s].is_configured = TRUE,
                         !.num_base_bdevs_discovered = U8Inc(@)]
        r2 == expect(r1, r1.num_base_bdevs_discovered <= r1.num_base_bdevs, "discovered_le_n")
        r3 == expect(r2, r2.num_base_bdevs_operational <= r2.num_base_bdevs, "operational_le_n")
        r4 == expect(r3, r3.num_base_bdevs_operational >= r3.min_base_bdevs_operational,
                     "operational_ge_min")
    IN  IF r4.num_base_bdevs_discovered = r4.num_base_bdevs_operational
        THEN raid_bdev_configure(r4, in)
        ELSE r4

raid_bdev_configure_base_bdev_check_sb_cb(rb, s, status, in) ==
    LET r1 == [rb EXCEPT !.h_check_sb[s] = FALSE]
    IN  CASE status = "0" -> raid_bdev_free_base_bdev_resource(r1, s)
          [] status = "EINVAL" -> raid_bdev_configure_base_bdev_cont(r1, s, in)
          [] OTHER -> fault(r1)

\* spdk_bdev_module_claim_bdev fails on a bdev that is already claimed.
claimed(rb, b) == \E i \in AllSlots : rb.base_bdev_info[i].desc = b

\* in.base is the host call that fails, if any: spdk_bdev_open_ext (with
\* an error other than -ENODEV), spdk_bdev_module_claim_bdev,
\* spdk_bdev_get_io_channel, the data offset and size checks against the
\* capacity of the bdev, raid_bdev_load_base_bdev_superblock.
raid_bdev_configure_base_bdev(rb, s, existing, in) ==
    LET bi == rb.base_bdev_info[s]
        r0 == expect(rb, bi.desc = NoBdev, "configure_base_desc_null")
        by_uuid == bi.uuid # NoBdev
        found == by_uuid /\ bi.uuid \in Bdevs /\ rb.h_present[bi.uuid]
    IN  IF by_uuid /\ ~found THEN r0
        ELSE IF by_uuid /\ bi.name # NoBdev /\ bi.name # bi.uuid THEN r0
        ELSE LET name == IF by_uuid THEN bi.uuid ELSE bi.name
                 r1 == [r0 EXCEPT !.base_bdev_info[s].name = name]
             IN  IF ~rb.h_present[name] THEN r1
                 ELSE IF in.base = "open" THEN fault(r1)
                 ELSE LET r2 == [r1 EXCEPT !.base_bdev_info[s].uuid = name]
                      IN  IF claimed(r2, name) THEN r2
                          ELSE IF in.base = "claim" THEN fault(r2)
                          ELSE LET r3 == expect(r2, r2.state # "ONLINE", "configure_base_not_online")
                                   r4 == [r3 EXCEPT !.base_bdev_info[s].desc = name]
                               IN  IF in.base = "channel" THEN fault(r3)
                                   ELSE IF in.base = "offset"
                                   THEN raid_bdev_free_base_bdev_resource(fault(r4), s)
                                   ELSE IF existing
                                   THEN raid_bdev_configure_base_bdev_cont(r4, s, in)
                                   ELSE IF in.base = "load"
                                   THEN raid_bdev_free_base_bdev_resource(fault(r4), s)
                                   ELSE [r4 EXCEPT !.h_check_sb[s] = TRUE]

\* The value raid_bdev_configure_base_bdev returns.
raid_bdev_configure_base_bdev_rc(rb, s, existing, in) ==
    LET bi == rb.base_bdev_info[s]
        by_uuid == bi.uuid # NoBdev
        found == by_uuid /\ bi.uuid \in Bdevs /\ rb.h_present[bi.uuid]
        name == IF by_uuid THEN bi.uuid ELSE bi.name
    IN  CASE by_uuid /\ ~found -> "ENODEV"
          [] by_uuid /\ found /\ bi.name # NoBdev /\ bi.name # bi.uuid -> "EINVAL"
          [] OTHER ->
                IF ~rb.h_present[name] THEN "ENODEV"
                ELSE IF in.base = "open" THEN "EPERM"
                ELSE IF claimed(rb, name) \/ in.base = "claim" THEN "EPERM"
                ELSE IF in.base = "channel" THEN "ENOMEM"
                ELSE IF in.base = "offset" THEN "EINVAL"
                ELSE IF ~existing /\ in.base = "load" THEN "ENOMEM"
                ELSE "0"

\* Variant: a slot that only carries a uuid is taken for vacant.
add_base_device_ignore_uuid(rb, name, slot, in) ==
    IF slot >= rb.num_base_bdevs THEN rb
    ELSE IF rb.base_bdev_info[slot].name # NoBdev THEN rb
    ELSE raid_bdev_configure_base_bdev(
             [rb EXCEPT !.base_bdev_info[slot].name = name], slot, FALSE, in)

raid_bdev_add_base_device(rb, name, slot, in) ==
    IF slot >= rb.num_base_bdevs THEN rb
    ELSE IF rb.base_bdev_info[slot].name # NoBdev THEN rb
    ELSE IF rb.base_bdev_info[slot].uuid # NoBdev THEN rb
    ELSE raid_bdev_configure_base_bdev(
             [rb EXCEPT !.base_bdev_info[slot].name = name], slot, FALSE, in)

\* The value raid_bdev_add_base_device returns.
raid_bdev_add_base_device_rc(rb, name, slot, in) ==
    IF slot >= rb.num_base_bdevs THEN "EINVAL"
    ELSE IF rb.base_bdev_info[slot].name # NoBdev THEN "EBUSY"
    ELSE IF rb.base_bdev_info[slot].uuid # NoBdev THEN "EBUSY"
    ELSE raid_bdev_configure_base_bdev_rc(
             [rb EXCEPT !.base_bdev_info[slot].name = name], slot, FALSE, in)

raid_bdev_remove_base_bdev_done(rb, s, status) ==
    LET r1 == expect(rb, rb.base_bdev_info[s].remove_scheduled, "done_remove_scheduled")
        r2 == [r1 EXCEPT !.base_bdev_info[s].remove_scheduled = FALSE, !.h_pipe[s] = NoPipe]
    IN  IF r2.base_bdev_info[s].remove_cb THEN invoke(r2, RemoveCb(s), status, "done") ELSE r2

raid_bdev_remove_base_bdev_write_sb_cb(rb, s, status) ==
    raid_bdev_remove_base_bdev_done(IF status = "0" THEN superblock_written(rb) ELSE fault(rb),
                                    s, status)

\* The entry the loop of raid_bdev_remove_base_bdev_on_unquiesced stops at:
\* the CONFIGURED entry of the slot, or the last entry when there is none.
sb_entry_to_fail(rb, s) ==
    IF rb.sb.state[s] = "CONFIGURED" THEN s ELSE rb.sb.num_base_bdevs - 1

raid_bdev_remove_base_bdev_on_unquiesced(rb, s, status) ==
    IF status # "0" THEN raid_bdev_remove_base_bdev_done(fault(rb), s, status)
    ELSE LET r1 == raid_bdev_free_base_bdev_resource(rb, s)
         IN  IF r1.sb.on
             THEN LET r2 == expect(r1, r1.sb.state[s] = "CONFIGURED", "sb_entry_found")
                      e == sb_entry_to_fail(r2, s)
                      r3 == IF e \in AllSlots THEN [r2 EXCEPT !.sb.state[e] = "FAILED"] ELSE r2
                  IN  [raid_bdev_write_superblock(r3) EXCEPT !.h_pipe[s] = [ph |-> "write_sb", at |-> 0]]
             ELSE raid_bdev_remove_base_bdev_done(r1, s, status)

raid_bdev_channel_remove_base_bdev(rb, s, t) ==
    [rb EXCEPT !.h_chan[t].base[s] = FALSE]

raid_bdev_channels_remove_base_bdev_done(rb, s) ==
    [rb EXCEPT !.h_pipe[s] = [ph |-> "unquiesce", at |-> 0]]

raid_bdev_remove_base_bdev_on_quiesced(rb, s, status) ==
    IF status # "0" THEN raid_bdev_remove_base_bdev_done(fault(rb), s, status)
    ELSE [rb EXCEPT !.h_pipe[s] = [ph |-> "for_each_channel", at |-> 1]]

\* The lowest element of a non-empty set of slots: where a loop over the
\* slots stops.
first_slot(S) == CHOOSE i \in S : \A j \in S : i <= j

raid_bdev_find_base_info_by_bdev(rb, b) ==
    IF rb.in_list
    THEN {i \in AllSlots : i < rb.num_base_bdevs /\ rb.base_bdev_info[i].desc = b}
    ELSE {}

\* Variant: a request for a slot whose removal is scheduled is taken as a
\* new request.
remove_base_bdev_again(rb, b, cb, in) ==
    IF raid_bdev_find_base_info_by_bdev(rb, b) = {} THEN rb
    ELSE LET s == first_slot(raid_bdev_find_base_info_by_bdev(rb, b))
             r1 == [rb EXCEPT !.base_bdev_info[s].remove_scheduled = TRUE,
                              !.base_bdev_info[s].remove_cb = cb]
         IN  IF r1.state # "ONLINE"
             THEN LET r2 == raid_bdev_free_base_bdev_resource(r1, s)
                  IN  IF r2.num_base_bdevs_discovered = 0
                      THEN raid_bdev_cleanup_and_free(r2)
                      ELSE r2
             ELSE LET r2 == [r1 EXCEPT !.num_base_bdevs_operational = U8Dec(@)]
                  IN  IF r1.num_base_bdevs_operational = r1.min_base_bdevs_operational
                      THEN raid_bdev_deconfigure(
                               [r2 EXCEPT !.g_fatal = [NoFatal EXCEPT !.slot = s]],
                               IF cb THEN RemoveCb(s) ELSE NoCb)
                      ELSE IF in.quiesce_ok
                           THEN [r2 EXCEPT !.h_pipe[s] = [ph |-> "quiesce", at |-> 0]]
                           ELSE [fault(r2) EXCEPT !.base_bdev_info[s].remove_scheduled = FALSE]

raid_bdev_remove_base_bdev(rb, b, cb, in) ==
    IF raid_bdev_find_base_info_by_bdev(rb, b) = {} THEN rb
    ELSE LET s == first_slot(raid_bdev_find_base_info_by_bdev(rb, b))
         IN  IF rb.base_bdev_info[s].remove_scheduled THEN rb
             ELSE LET r1 == [rb EXCEPT !.base_bdev_info[s].remove_scheduled = TRUE,
                                      !.base_bdev_info[s].remove_cb = cb]
                  IN  IF r1.state # "ONLINE"
                      THEN LET r2 == raid_bdev_free_base_bdev_resource(r1, s)
                           IN  IF r2.num_base_bdevs_discovered = 0
                               THEN raid_bdev_cleanup_and_free(r2)
                               ELSE r2
                      ELSE LET r2 == [r1 EXCEPT !.num_base_bdevs_operational = U8Dec(@)]
                           IN  IF r1.num_base_bdevs_operational = r1.min_base_bdevs_operational
                               THEN raid_bdev_deconfigure(
                                        [r2 EXCEPT !.g_fatal = [NoFatal EXCEPT !.slot = s]],
                                        IF cb THEN RemoveCb(s) ELSE NoCb)
                               ELSE IF in.quiesce_ok
                                    THEN [r2 EXCEPT !.h_pipe[s] = [ph |-> "quiesce", at |-> 0]]
                                    ELSE [fault(r2) EXCEPT !.base_bdev_info[s].remove_scheduled = FALSE]

\* The value raid_bdev_remove_base_bdev returns.
raid_bdev_remove_base_bdev_rc(rb, b) ==
    IF raid_bdev_find_base_info_by_bdev(rb, b) = {} THEN "ENODEV" ELSE "0"

\* Variant: a delete of an array that is being destroyed starts over.
delete_again(rb, cb) ==
    LET r1 == [rb EXCEPT !.destroy_started = TRUE,
                         !.base_bdev_info = [i \in AllSlots |->
                             IF i < rb.num_base_bdevs
                             THEN [@[i] EXCEPT !.remove_scheduled = TRUE] ELSE @[i]]]
        r2 == IF r1.state # "ONLINE"
              THEN free_base_bdevs(r1, AllSlots, 0)
              ELSE r1
    IN  IF r2.num_base_bdevs_discovered = 0
        THEN invoke(raid_bdev_cleanup_and_free(r2), cb, "0", "direct")
        ELSE raid_bdev_deconfigure(r2, cb)

raid_bdev_delete(rb, cb) ==
    IF rb.destroy_started THEN invoke(rb, cb, "EALREADY", "direct")
    ELSE LET r1 == [rb EXCEPT !.destroy_started = TRUE,
                              !.base_bdev_info = [i \in AllSlots |->
                                  IF i < rb.num_base_bdevs
                                  THEN [@[i] EXCEPT !.remove_scheduled = TRUE] ELSE @[i]]]
             r2 == IF r1.state # "ONLINE"
                   THEN free_base_bdevs(r1, AllSlots, 0)
                   ELSE r1
         IN  IF r2.num_base_bdevs_discovered = 0
             THEN invoke(raid_bdev_cleanup_and_free(r2), cb, "0", "direct")
             ELSE raid_bdev_deconfigure(r2, cb)

\* spdk_bdev_get_io_channel is called for slot fail.slot and refused.
base_refused(rb, fail) ==
    /\ fail.kind = "base"
    /\ fail.slot < rb.num_base_bdevs
    /\ rb.base_bdev_info[fail.slot].desc # NoBdev

\* Variant: the first failed add answers the request.
add_base_bdev_cb_fail_fast(rb, status) ==
    LET c == rb.h_rpc
        c1 == [c EXCEPT !.status = IF status # "0" THEN status ELSE @,
                        !.failed = @ \/ status # "0",
                        !.underflow = @ \/ c.remaining = 0,
                        !.remaining = (c.remaining - 1) % 256]
        r1 == [rb EXCEPT !.h_rpc = c1]
    IN  IF c.freed > 0 THEN [rb EXCEPT !.h_rpc.uaf = TRUE]
        ELSE IF c1.remaining > 0 /\ status = "0" THEN r1
        ELSE [(IF c1.status # "0" THEN raid_bdev_delete(r1, NoCb) ELSE r1)
                 EXCEPT !.h_rpc.responses = @ + 1,
                        !.h_rpc.response = c1.status,
                        !.h_rpc.freed = @ + 1]

\* rpc_bdev_raid_create_add_base_bdev_cb: one add of the request has
\* settled.  remaining is a uint8_t; a call on a freed context is a use
\* after free.
rpc_bdev_raid_create_add_base_bdev_cb(rb, status) ==
    LET c == rb.h_rpc
        c1 == [c EXCEPT !.status = IF status # "0" THEN status ELSE @,
                        !.failed = @ \/ status # "0",
                        !.underflow = @ \/ c.remaining = 0,
                        !.remaining = (c.remaining - 1) % 256]
        r1 == [rb EXCEPT !.h_rpc = c1]
    IN  IF c.freed > 0 THEN [rb EXCEPT !.h_rpc.uaf = TRUE]
        ELSE IF c1.remaining > 0 THEN r1
        ELSE [(IF c1.status # "0" THEN raid_bdev_delete(r1, NoCb) ELSE r1)
                 EXCEPT !.h_rpc.responses = @ + 1,
                        !.h_rpc.response = c1.status,
                        !.h_rpc.freed = @ + 1]

\* What raid_bdev_add_base_bdev does with one base of the request: it
\* returns 0 and calls back later, returns 0 having called back already
\* (with 0 or with an error), returns -ENODEV, or returns another error.
AddOutcomes == {"later", "now_ok", "now_err", "ENODEV", "EBUSY"}

\* The loop of rpc_bdev_raid_create over the bases from i on.
RECURSIVE rpc_bdev_raid_create_loop(_, _, _, _)
rpc_bdev_raid_create_loop(rb, n, i, outs) ==
    IF i >= n THEN rb
    ELSE CASE outs[i] = "later" ->
                rpc_bdev_raid_create_loop(
                    [rb EXCEPT !.h_rpc.pending = @ \cup {i}], n, i + 1, outs)
           [] outs[i] = "now_ok" ->
                rpc_bdev_raid_create_loop(
                    rpc_bdev_raid_create_add_base_bdev_cb(rb, "0"), n, i + 1, outs)
           [] outs[i] = "now_err" ->
                rpc_bdev_raid_create_loop(
                    rpc_bdev_raid_create_add_base_bdev_cb(rb, "EIO"), n, i + 1, outs)
           [] outs[i] = "ENODEV" ->
                rpc_bdev_raid_create_loop(
                    rpc_bdev_raid_create_add_base_bdev_cb(rb, "0"), n, i + 1, outs)
           [] OTHER ->
                IF rb.h_rpc.freed > 0 THEN [rb EXCEPT !.h_rpc.uaf = TRUE]
                ELSE rpc_bdev_raid_create_add_base_bdev_cb(
                         [rb EXCEPT !.h_rpc.underflow = @ \/ rb.h_rpc.remaining < n - i - 1,
                                    !.h_rpc.remaining = (@ - (n - i - 1)) % 256],
                         outs[i])

\* What can fail in rpc_bdev_raid_create before the array is created: the
\* allocation of the context, the decoding of the parameters, an empty
\* base bdev name.
RpcFaults == {"none", "calloc", "decode", "empty"}

\* rpc_bdev_raid_create
rpc_bdev_raid_create(rb, n, module, superblock_enabled, early, outs) ==
    LET c0 == [NoRpcCtx EXCEPT !.called = TRUE]
        answer(status, alloc) ==
            [rb EXCEPT !.h_rpc = [c0 EXCEPT !.alloc = alloc, !.failed = TRUE,
                                            !.status = status,
                                            !.responses = 1, !.response = status,
                                            !.freed = IF alloc THEN 1 ELSE 0]]
    IN  IF early = "calloc" THEN answer("ENOMEM", FALSE)
        ELSE IF early = "decode" THEN answer("PARSE_ERROR", TRUE)
        ELSE IF early = "empty" THEN answer("EINVAL", TRUE)
        ELSE IF raid_bdev_create_rc(rb, n, module) # "0"
        THEN answer(raid_bdev_create_rc(rb, n, module), TRUE)
        ELSE rpc_bdev_raid_create_loop(
                 [raid_bdev_create(rb, n, module, superblock_enabled)
                     EXCEPT !.h_rpc = [c0 EXCEPT !.alloc = TRUE, !.remaining = n]],
                 n, 0, outs)

\* What can fail while a channel is created: the allocation of the handle
\* array, spdk_bdev_get_io_channel for the base of one slot, the module's
\* get_io_channel.
ChannelFaults ==
    {f \in [kind : {"none", "calloc", "base", "module"}, slot : AllSlots] :
        f.kind # "base" => f.slot = 0}

\* The base channels raid_bdev_create_cb holds when its loop ends: one for
\* every slot whose descriptor is open, up to the slot whose channel the
\* host refuses.
create_cb_taken(rb, fail) ==
    [i \in AllSlots |->
        /\ i < rb.num_base_bdevs
        /\ rb.base_bdev_info[i].desc # NoBdev
        /\ base_refused(rb, fail) => i < fail.slot]

\* The value raid_bdev_create_cb returns.
raid_bdev_create_cb_rc(rb, t, fail) ==
    IF fail.kind = "calloc" THEN "ENOMEM"
    ELSE IF base_refused(rb, fail) THEN "ENOMEM"
    ELSE IF fail.kind = "module" THEN "ENOMEM"
    ELSE "0"

\* Variant: a failed creation keeps the base channels it took.
create_cb_keep_handles(rb, t, fail) ==
    LET r1 == expect(rb, rb.state = "ONLINE", "create_cb_online")
        taken == create_cb_taken(rb, fail)
    IN  IF fail.kind = "calloc" THEN r1
        ELSE [r1 EXCEPT !.h_chan[t] =
                 [open |-> raid_bdev_create_cb_rc(rb, t, fail) = "0", base |-> taken]]

\* raid_bdev_create_cb: the channel of a thread takes a base channel for
\* every slot whose descriptor is open; on a failure it puts back every
\* channel it took.
raid_bdev_create_cb(rb, t, fail) ==
    LET r1 == expect(rb, rb.state = "ONLINE", "create_cb_online")
        taken == create_cb_taken(rb, fail)
    IN  IF fail.kind = "calloc" THEN r1
        ELSE IF raid_bdev_create_cb_rc(rb, t, fail) # "0"
        THEN [r1 EXCEPT !.h_chan[t] =
                 [open |-> FALSE,
                  base |-> [i \in AllSlots |-> IF taken[i] THEN FALSE ELSE taken[i]]]]
        ELSE [r1 EXCEPT !.h_chan[t] = [open |-> TRUE, base |-> taken]]

raid_bdev_destroy_cb(rb, t) == [rb EXCEPT !.h_chan[t] = NoChan]

RECURSIVE add_all(_, _)
\* raid_bdev_add_base_device for the slots from i on, every superblock read
\* answering -EINVAL, every host call succeeding.
add_all(rb, i) ==
    IF i >= rb.num_base_bdevs THEN rb
    ELSE LET in == [start_ok |-> TRUE, register_ok |-> TRUE, quiesce_ok |-> TRUE, base |-> "ok"]
         IN  add_all(raid_bdev_configure_base_bdev_check_sb_cb(
                         raid_bdev_add_base_device(rb, i, i, in), i, "EINVAL", in), i + 1)

\* The system after an array of n members was created, got all its members
\* and was configured (its superblock written, when it has one).
OnlineArrayOf(n, module, superblock_enabled) ==
    LET in == [start_ok |-> TRUE, register_ok |-> TRUE, quiesce_ok |-> TRUE, base |-> "ok"]
        r1 == add_all(raid_bdev_create(
                          [NoArray EXCEPT !.h_present = [b \in Bdevs |-> TRUE]],
                          n, module, superblock_enabled), 0)
        r2 == IF r1.h_cfg_write THEN raid_bdev_configure_write_sb_cb(r1, "0", in) ELSE r1
    IN  [r2 EXCEPT !.g_writes = 0]

----------------------------------------------------------------------------
(***************************************************************************)
(* Data path.  The record raid_io holds the fields of struct raid_bdev_io  *)
(* the core uses (remaining, submitted, status), the submitter's position  *)
(* (pc), the state of every base reset (leg), and history fields:          *)
(*   loaded       the value last loaded into base_bdev_io_remaining        *)
(*   loads        how many times base_bdev_io_remaining was loaded         *)
(*   parts_sum    sum of the 'completed' arguments of complete_part        *)
(*   reported     statuses reported by sub-completions                     *)
(*   first_fail   status of the first failing sub-completion               *)
(*   last_fail    status of the last failing sub-completion                *)
(*   outstanding  base sub-I/O units submitted and not yet completed       *)
(*   completions  number of front-end completions                          *)
(*   final        status of the (last) front-end completion                *)
(*   out_at_done  'outstanding' when the front-end completion was issued   *)
(*   resets       how many base resets each slot received                  *)
(*   waits        how many times the request was put on a wait queue       *)
(***************************************************************************)

\* raid_bdev_io_init: the context of a fresh request.
raid_bdev_io_init(type) ==
    [ type |-> type, pc |-> "init",
      remaining |-> 0, submitted |-> 0, status |-> "SUCCESS",
      leg |-> [i \in 0 .. (MaxBase - 1) |-> "none"],
      resets |-> [i \in 0 .. (MaxBase - 1) |-> 0],
      waitq |-> FALSE, waits |-> 0,
      loaded |-> 0, loads |-> 0, parts_sum |-> 0,
      reported |-> {}, first_fail |-> "NONE", last_fail |-> "NONE",
      outstanding |-> 0,
      completions |-> 0, final |-> "NONE", out_at_done |-> 0 ]

\* No request has been submitted on the channel yet.
NoIo == [raid_bdev_io_init("NONE") EXCEPT !.pc = "idle"]

\* raid_bdev_io_complete: the front-end completion (completion_cb or
\* spdk_bdev_io_complete).
raid_bdev_io_complete(io, status) ==
    [io EXCEPT !.completions = @ + 1,
               !.final = status,
               !.out_at_done = io.outstanding]

\* A plausible slip: every sub-completion stores its status, so that a later
\* success hides an earlier failure.
complete_part_overwrite(io, completed, status) ==
    LET r == [io EXCEPT !.remaining = @ - completed,
                        !.parts_sum = @ + completed,
                        !.reported = @ \cup {status},
                        !.first_fail = IF @ = "NONE" /\ status # "SUCCESS"
                                       THEN status ELSE @,
                        !.last_fail = IF status # "SUCCESS" THEN status ELSE @,
                        !.status = status]
    IN  IF r.remaining = 0 THEN raid_bdev_io_complete(r, r.status) ELSE r

\* A plausible slip: only the first failure is stored.
complete_part_first_wins(io, completed, status) ==
    LET r == [io EXCEPT !.remaining = @ - completed,
                        !.parts_sum = @ + completed,
                        !.reported = @ \cup {status},
                        !.first_fail = IF @ = "NONE" /\ status # "SUCCESS"
                                       THEN status ELSE @,
                        !.last_fail = IF status # "SUCCESS" THEN status ELSE @,
                        !.status = IF status # "SUCCESS" /\ @ = "SUCCESS"
                                   THEN status ELSE @]
    IN  IF r.remaining = 0 THEN raid_bdev_io_complete(r, r.status) ELSE r

\* raid_bdev_io_complete_part
raid_bdev_io_complete_part(io, completed, status) ==
    LET r == [io EXCEPT !.remaining = @ - completed,
                        !.parts_sum = @ + completed,
                        !.reported = @ \cup {status},
                        !.first_fail = IF @ = "NONE" /\ status # "SUCCESS"
                                       THEN status ELSE @,
                        !.last_fail = IF status # "SUCCESS" THEN status ELSE @,
                        !.status = IF status # "SUCCESS" THEN status ELSE @]
    IN  IF r.remaining = 0 THEN raid_bdev_io_complete(r, r.status) ELSE r

\* The for loop of raid_bdev_submit_reset_request from slot i on; rets[i] is
\* what spdk_bdev_reset returns for slot i.
RECURSIVE reset_loop(_, _, _, _)
reset_loop(io, ch, i, rets) ==
    IF i >= num_base_bdevs THEN [io EXCEPT !.pc = "submitted"]
    ELSE IF ~ch[i]
         THEN reset_loop(raid_bdev_io_complete_part(
                             [io EXCEPT !.submitted = @ + 1], 1, "SUCCESS"),
                         ch, i + 1, rets)
    ELSE IF rets[i] = "OK"
         THEN reset_loop([io EXCEPT !.submitted = @ + 1,
                                    !.leg[i] = "inflight",
                                    !.resets[i] = @ + 1,
                                    !.outstanding = @ + 1],
                         ch, i + 1, rets)
    ELSE IF rets[i] = "ENOMEM"
         THEN \* raid_bdev_queue_io_wait
              [io EXCEPT !.pc = "waitq", !.waitq = TRUE, !.waits = @ + 1]
    ELSE [raid_bdev_io_complete(io, "FAILED") EXCEPT !.pc = "submit_error"]

\* Variant: every run of the fan-out loads base_bdev_io_remaining.
submit_reset_request_reload(io, ch, rets) ==
    LET io1 == [io EXCEPT !.remaining = num_base_bdevs,
                          !.loaded = num_base_bdevs,
                          !.loads = @ + 1]
    IN  reset_loop(io1, ch, io1.submitted, rets)

\* Variant: a retry walks the slots from the first one again.
submit_reset_request_restart(io, ch, rets) ==
    LET io1 == IF io.remaining = 0
               THEN [io EXCEPT !.remaining = num_base_bdevs,
                               !.loaded = num_base_bdevs,
                               !.loads = @ + 1]
               ELSE io
    IN  reset_loop(io1, ch, 0, rets)

\* raid_bdev_submit_reset_request
raid_bdev_submit_reset_request(io, ch, rets) ==
    LET io1 == IF io.remaining = 0
               THEN [io EXCEPT !.remaining = num_base_bdevs,
                               !.loaded = num_base_bdevs,
                               !.loads = @ + 1]
               ELSE io
    IN  reset_loop(io1, ch, io1.submitted, rets)

\* module->submit_rw_request / submit_null_payload_request: the level module
\* loads base_bdev_io_remaining with the number of parts and issues them
\* (the contract stated above raid_bdev_io_complete_part).
module_submit_request(io, parts) ==
    [io EXCEPT !.pc = "submitted",
               !.remaining = parts, !.loaded = parts, !.loads = @ + 1,
               !.outstanding = @ + parts]

\* What spdk_bdev_reset may return for each slot in one run of the fan-out
\* (-ENOMEM at most MaxWaits times per request).
SubmitRets(io) ==
    {rets \in [Slots -> SubmitRc] :
        \A i \in Slots : rets[i] = "ENOMEM" => io.waits < MaxWaits}

\* A request may be submitted when the context is free: no request yet, or the
\* previous one completed and none of its base I/O is still in flight.
IoFree ==
    \/ raid_io.pc = "idle"
    \/ /\ raid_io.completions > 0
       /\ raid_io.outstanding = 0
       /\ ~raid_io.waitq

\* raid_bdev_submit_request
SubmitRequest ==
    /\ IoFree
    /\ \E type \in IoTypes :
         LET io == raid_bdev_io_init(type) IN
         CASE type = "READ" ->
                \* spdk_bdev_io_get_buf, asynchronous
                raid_io' = [io EXCEPT !.pc = "getbuf"]
           [] type \in {"WRITE", "FLUSH"} ->
                \E parts \in 1 .. MaxParts :
                    raid_io' = module_submit_request(io, parts)
           [] type = "RESET" ->
                \E rets \in SubmitRets(io) :
                    raid_io' = raid_bdev_submit_reset_request(io, base_channel, rets)
           [] OTHER ->
                raid_io' = [raid_bdev_io_complete(io, "FAILED") EXCEPT !.pc = "invalid"]
    /\ UNCHANGED <<raid_bdev, base_channel>>

\* raid_bdev_get_buf_cb
GetBufCb ==
    /\ raid_io.pc = "getbuf"
    /\ \/ raid_io' = [raid_bdev_io_complete(raid_io, "FAILED") EXCEPT !.pc = "nobuf"]
       \/ \E parts \in 1 .. MaxParts :
              raid_io' = module_submit_request(raid_io, parts)
    /\ UNCHANGED <<raid_bdev, base_channel>>

\* A level module's base I/O completion: raid_bdev_io_complete_part(raid_io,
\* completed, status) for some of the parts still expected.
ModuleCompletePart ==
    /\ raid_io.type \in {"READ", "WRITE", "FLUSH"}
    /\ raid_io.pc = "submitted"
    /\ raid_io.outstanding > 0
    /\ \E completed \in 1 .. raid_io.outstanding, status \in BdevIoStatus :
         raid_io' = raid_bdev_io_complete_part(
                        [raid_io EXCEPT !.outstanding = @ - completed],
                        completed, status)
    /\ UNCHANGED <<raid_bdev, base_channel>>

\* raid_base_bdev_reset_complete for the base reset of slot i
ResetComplete ==
    /\ \E i \in Slots, success \in BOOLEAN :
         /\ raid_io.leg[i] = "inflight"
         /\ raid_io' = raid_bdev_io_complete_part(
                           [raid_io EXCEPT !.leg[i] = "done",
                                           !.outstanding = @ - 1],
                           1, IF success THEN "SUCCESS" ELSE "FAILED")
    /\ UNCHANGED <<raid_bdev, base_channel>>

\* _raid_bdev_submit_reset_request: the host signals the wait-queue entry.
IoWaitCb ==
    /\ raid_io.waitq
    /\ \E rets \in SubmitRets(raid_io) :
         raid_io' = raid_bdev_submit_reset_request(
                        [raid_io EXCEPT !.waitq = FALSE], base_channel, rets)
    /\ UNCHANGED <<raid_bdev, base_channel>>

\* raid_bdev_channel_remove_base_bdev on this channel: a member is removed
\* while the request waits (RESET is not drained by the quiesce).
ChannelRemoveBase ==
    /\ \E i \in Slots :
         /\ base_channel[i]
         /\ base_channel' = [base_channel EXCEPT ![i] = FALSE]
    /\ UNCHANGED <<raid_bdev, raid_io>>

InitIO ==
    /\ \E n \in 1 .. MaxBase : raid_bdev = OnlineArrayOf(n, Raid0Module, FALSE)
    /\ base_channel \in [AllSlots -> BOOLEAN]
    /\ \A i \in AllSlots : i >= num_base_bdevs => ~base_channel[i]
    /\ raid_io = NoIo

NextIO ==
    \/ SubmitRequest
    \/ GetBufCb
    \/ ModuleCompletePart
    \/ ResetComplete
    \/ IoWaitCb
    \/ ChannelRemoveBase

SpecIO == InitIO /\ [][NextIO]_vars

\* The host signals a registered wait-queue entry and completes a submitted
\* base reset: both callbacks stay enabled until they run.
FairIO == WF_vars(IoWaitCb) /\ WF_vars(ResetComplete)

SpecIOFair == InitIO /\ [][NextIO]_vars /\ FairIO

----------------------------------------------------------------------------
(***************************************************************************)
(* Control path: the operations and callbacks as actions.                  *)
(***************************************************************************)

\* g_creates counts the arrays created by raid_bdev_create.
raid_bdev_create_from_sb(rb, sb) ==
    LET r1 == raid_bdev_create_common(rb, sb.num_base_bdevs, sb.module, TRUE)
    IN  [r1 EXCEPT !.g_creates = rb.g_creates,
                   !.sb = sb,
                   !.base_bdev_info = [i \in AllSlots |->
                       IF i < sb.num_base_bdevs /\ sb.state[i] = "CONFIGURED"
                       THEN [NoBaseInfo EXCEPT !.uuid = sb.uuid[i]]
                       ELSE NoBaseInfo],
                   !.num_base_bdevs_operational =
                       Cardinality({i \in AllSlots : i < sb.num_base_bdevs
                                                     /\ sb.state[i] = "CONFIGURED"})]

raid_bdev_examine_no_sb(rb, b, in) ==
    LET S == {i \in AllSlots : /\ rb.in_list
                               /\ i < rb.num_base_bdevs
                               /\ rb.base_bdev_info[i].desc = NoBdev
                               /\ rb.base_bdev_info[i].name = b}
    IN  IF S = {} THEN rb
        ELSE raid_bdev_configure_base_bdev(rb, first_slot(S), TRUE, in)

\* Variant: a newer superblock replaces the array in any state.
examine_sb_always_replace(rb, sb, b, in) ==
    IF ~sb.uuid_set THEN rb
    ELSE
    LET known == rb.in_list /\ rb.sb.on
        newer == known /\ sb.seq_number > rb.sb.seq_number
        r1 == IF newer THEN raid_bdev_delete(rb, NoCb) ELSE rb
        have == known /\ ~newer
        ref == IF have /\ sb.seq_number < rb.sb.seq_number THEN rb.sb ELSE sb
        E == {i \in AllSlots : i < ref.num_base_bdevs /\ ref.uuid[i] = b}
    IN  IF E = {} THEN r1
        ELSE IF ~have /\ ~create_ok(r1, ref.num_base_bdevs, ref.module)
        THEN [r1 EXCEPT !.crashed = TRUE]
        ELSE
        LET r2 == IF have THEN r1 ELSE raid_bdev_create_from_sb(r1, ref)
            S == {i \in AllSlots : i < r2.num_base_bdevs /\ r2.base_bdev_info[i].uuid = b}
        IN  IF ref.state[first_slot(E)] # "CONFIGURED" THEN r2
            ELSE IF S = {} THEN r2
            ELSE raid_bdev_configure_base_bdev(r2, first_slot(S), TRUE, in)

\* Variant: the array is synthesized before the entry of the base is
\* looked up.
examine_sb_create_first(rb, sb, b, in) ==
    IF ~sb.uuid_set THEN rb
    ELSE
    LET known == rb.in_list /\ rb.sb.on
        newer == known /\ sb.seq_number > rb.sb.seq_number
    IN  IF newer /\ rb.state # "CONFIGURING" THEN rb
        ELSE
        LET r1 == IF newer THEN raid_bdev_delete(rb, NoCb) ELSE rb
            have == known /\ ~newer
            ref == IF have /\ sb.seq_number < rb.sb.seq_number THEN rb.sb ELSE sb
            E == {i \in AllSlots : i < ref.num_base_bdevs /\ ref.uuid[i] = b}
        IN  IF ~have /\ ~create_ok(r1, ref.num_base_bdevs, ref.module)
            THEN [r1 EXCEPT !.crashed = TRUE]
            ELSE
            LET r2 == IF have THEN r1 ELSE raid_bdev_create_from_sb(r1, ref)
                S == {i \in AllSlots : i < r2.num_base_bdevs /\ r2.base_bdev_info[i].uuid = b}
            IN  IF E = {} THEN r2
                ELSE IF ref.state[first_slot(E)] # "CONFIGURED" THEN r2
                ELSE IF S = {} THEN r2
                ELSE raid_bdev_configure_base_bdev(r2, first_slot(S), TRUE, in)

\* Arrays with a superblock carry the one array uuid of the model.
raid_bdev_examine_sb(rb, sb, b, in) ==
    IF ~sb.uuid_set THEN rb
    ELSE
    LET known == rb.in_list /\ rb.sb.on
        newer == known /\ sb.seq_number > rb.sb.seq_number
    IN  IF newer /\ rb.state # "CONFIGURING" THEN rb
        ELSE
        LET r1 == IF newer THEN raid_bdev_delete(rb, NoCb) ELSE rb
            have == known /\ ~newer
            ref == IF have /\ sb.seq_number < rb.sb.seq_number THEN rb.sb ELSE sb
            E == {i \in AllSlots : i < ref.num_base_bdevs /\ ref.uuid[i] = b}
        IN  IF E = {} THEN r1
            ELSE IF ~have /\ ~create_ok(r1, ref.num_base_bdevs, ref.module)
            THEN [r1 EXCEPT !.crashed = TRUE]
            ELSE
            LET r2 == IF have THEN r1 ELSE raid_bdev_create_from_sb(r1, ref)
                S == {i \in AllSlots : i < r2.num_base_bdevs /\ r2.base_bdev_info[i].uuid = b}
            IN  IF ref.state[first_slot(E)] # "CONFIGURED" THEN r2
                ELSE IF S = {} THEN r2
                ELSE raid_bdev_configure_base_bdev(r2, first_slot(S), TRUE, in)

\* raid_bdev_examine_ctx_free and spdk_bdev_module_examine_done, the end
\* of every path of an examine.
raid_bdev_examine_done(rb, b, status) ==
    [rb EXCEPT !.h_examine_ctx[b] = FALSE,
               !.h_examine_done[b] = IF @ < 2 THEN @ + 1 ELSE @,
               !.g_event = [kind |-> "examine", slot |-> b, status |-> status,
                            via |-> "examine_done"]]

\* A process that has died in raid_bdev_examine_sb does not reach the end.
raid_bdev_examine_load_sb_cb(rb, b, status, in) ==
    LET r1 == [rb EXCEPT !.h_examine[b] = FALSE]
        r2 == CASE status = "0" -> raid_bdev_examine_sb(r1, r1.h_disk[b], b, in)
                [] status = "EINVAL" -> raid_bdev_examine_no_sb(r1, b, in)
                [] OTHER -> fault(r1)
    IN  IF r2.crashed THEN r2 ELSE raid_bdev_examine_done(r2, b, status)

\* What can fail in raid_bdev_examine: calloc, spdk_bdev_open_ext,
\* spdk_bdev_get_io_channel, raid_bdev_load_base_bdev_superblock.
ExamineOutcomes == {"ok", "ENOMEM", "open", "channel", "load"}

raid_bdev_examine(rb, b, outcome) ==
    IF outcome = "ok"
    THEN [rb EXCEPT !.h_examine[b] = TRUE, !.h_examine_ctx[b] = TRUE]
    ELSE LET r1 == IF outcome \in {"channel", "load"}
                   THEN [rb EXCEPT !.h_examine_ctx[b] = TRUE] ELSE rb
         IN  raid_bdev_examine_done(fault(r1), b, outcome)

\* Results of the host calls made inside one handler: module->start and the
\* geometry checks of raid_bdev_configure, spdk_bdev_register,
\* spdk_bdev_quiesce, and the step of raid_bdev_configure_base_bdev that
\* fails (BaseOutcomes).
BaseOutcomes == {"ok", "open", "claim", "channel", "offset", "load"}

Inputs == [start_ok : BOOLEAN, register_ok : BOOLEAN, quiesce_ok : BOOLEAN,
           base : BaseOutcomes]

AllOk == [start_ok |-> TRUE, register_ok |-> TRUE, quiesce_ok |-> TRUE, base |-> "ok"]

\* The inputs a configuration / a removal / an add reads.
ConfigureInputs == {in \in Inputs : in.quiesce_ok /\ in.base = "ok"}
RegisterInputs == {in \in Inputs : in.quiesce_ok /\ in.start_ok /\ in.base = "ok"}
RemoveInputs == {in \in Inputs : in.start_ok /\ in.register_ok /\ in.base = "ok"}
AddInputs == {in \in Inputs : in.start_ok /\ in.register_ok /\ in.quiesce_ok}

\* Status of a completed superblock read or write, of a quiesce or an
\* unquiesce.
IoStatus == {"0", "EIO"}

\* What a superblock read of base bdev b can report.
LoadStatus(rb, b) == {IF rb.h_disk[b].on THEN "0" ELSE "EINVAL", "EIO"}

\* The bdev the superblock read of slot s was issued to: the one the slot
\* has open, or, once the slot has been released, the one of its number.
CheckedBdev(rb, s) ==
    IF rb.base_bdev_info[s].desc \in Bdevs THEN rb.base_bdev_info[s].desc ELSE s

\* Who asks for a removal: the RPC (with a callback) or the hot-remove
\* event of the host (without).
RemoveCallers == {TRUE}

\* The name an administrator gives for a slot.
AddNames(slot) == {slot}

\* The bounds of a run.
bounded(next) ==
    /\ next.g_writes <= MaxWrites
    /\ next.g_faults <= MaxFaults
    /\ next.g_creates <= MaxCreates

\* A callback that runs on a freed array reads freed memory: the process
\* either dies (UseAfterFreeCrash) or finds the old contents.
touch(rb, next) ==
    IF rb.allocated THEN next ELSE [next EXCEPT !.g_uaf = TRUE]

\* A run is followed until the process dies, a callback has run on freed
\* memory or an assertion of the source fails: the handler in which the
\* assertion fails runs to its end, as it does in a build without
\* assertions.
Live == ~raid_bdev.crashed /\ raid_bdev.g_failed = {} /\ ~raid_bdev.g_uaf

\* The array at the start of a step: no callback delivered yet.
cur == [raid_bdev EXCEPT !.g_event = NoEvent, !.g_thread = AppThread]

\* A step to the array 'next', within the bounds of a run.
step(next) == bounded(next) /\ raid_bdev' = next

RaidBdevCreate ==
    /\ Live
    /\ ~raid_bdev.g_shutdown_started
    /\ raid_bdev.g_creates < MaxCreates
    /\ ~Pending(raid_bdev)
    /\ \A t \in Threads : ~raid_bdev.h_chan[t].open
    /\ \E n \in 1 .. MaxBase, module \in Modules, superblock_enabled \in BOOLEAN :
          /\ create_ok(raid_bdev, n, module)
          /\ step(raid_bdev_create(cur, n, module, superblock_enabled))
    /\ UNCHANGED iovars

\* The administrator adds to an array that is not being deleted.
AddBaseDevice ==
    /\ Live
    /\ raid_bdev.in_list
    /\ ~raid_bdev.destroy_started
    /\ ~raid_bdev.g_shutdown_started
    /\ \E slot \in AllSlots : \E name \in AddNames(slot) :
          step(raid_bdev_add_base_device(cur, name, slot, AllOk))
    /\ UNCHANGED iovars

CheckSbCb ==
    /\ Live
    /\ \E s \in AllSlots, in \in ConfigureInputs :
          /\ raid_bdev.h_check_sb[s]
          /\ \E status \in LoadStatus(raid_bdev, CheckedBdev(raid_bdev, s)) :
                step(touch(cur,
                    raid_bdev_configure_base_bdev_check_sb_cb(cur, s, status, in)))
    /\ UNCHANGED iovars

ConfigureWriteSbCb ==
    /\ Live
    /\ raid_bdev.h_cfg_write
    /\ \E status \in IoStatus, in \in RegisterInputs :
          step(touch(cur, raid_bdev_configure_write_sb_cb(cur, status, in)))
    /\ UNCHANGED iovars

RemoveBaseBdev ==
    /\ Live
    /\ \E b \in Bdevs, cb \in RemoveCallers, in \in RemoveInputs :
          /\ raid_bdev_find_base_info_by_bdev(raid_bdev, b) # {}
          /\ step(raid_bdev_remove_base_bdev(cur, b, cb, in))
    /\ UNCHANGED iovars

\* The host grants one quiesce of the array at a time.
OnQuiesced ==
    /\ Live
    /\ \E s \in AllSlots, status \in IoStatus :
          /\ raid_bdev.h_pipe[s].ph = "quiesce"
          /\ \A j \in AllSlots : raid_bdev.h_pipe[j].ph \notin {"for_each_channel", "unquiesce"}
          /\ step(touch(cur, raid_bdev_remove_base_bdev_on_quiesced(cur, s, status)))
    /\ UNCHANGED iovars

\* spdk_for_each_channel visits the threads in order, calling the function
\* on every thread that has a channel.
ChannelRemoveBaseBdev ==
    /\ Live
    /\ \E s \in AllSlots :
          /\ raid_bdev.h_pipe[s].ph = "for_each_channel"
          /\ raid_bdev.h_pipe[s].at \in Threads
          /\ LET t == raid_bdev.h_pipe[s].at
                 r1 == IF raid_bdev.h_chan[t].open
                       THEN raid_bdev_channel_remove_base_bdev(cur, s, t)
                       ELSE cur
             IN  step([r1 EXCEPT !.h_pipe[s].at = @ + 1])
    /\ UNCHANGED iovars

ChannelsRemoveBaseBdevDone ==
    /\ Live
    /\ \E s \in AllSlots :
          /\ raid_bdev.h_pipe[s].ph = "for_each_channel"
          /\ raid_bdev.h_pipe[s].at \notin Threads
          /\ step(touch(cur, raid_bdev_channels_remove_base_bdev_done(cur, s)))
    /\ UNCHANGED iovars

OnUnquiesced ==
    /\ Live
    /\ \E s \in AllSlots, status \in IoStatus :
          /\ raid_bdev.h_pipe[s].ph = "unquiesce"
          /\ step(touch(cur, raid_bdev_remove_base_bdev_on_unquiesced(cur, s, status)))
    /\ UNCHANGED iovars

RemoveWriteSbCb ==
    /\ Live
    /\ \E s \in AllSlots, status \in IoStatus :
          /\ raid_bdev.h_pipe[s].ph = "write_sb"
          /\ step(touch(cur, raid_bdev_remove_base_bdev_write_sb_cb(cur, s, status)))
    /\ UNCHANGED iovars

RaidBdevDelete ==
    /\ Live
    /\ raid_bdev.in_list
    /\ step(raid_bdev_delete(cur, DeleteCb))
    /\ UNCHANGED iovars

Destruct ==
    /\ Live
    /\ raid_bdev.h_unreg = "requested"
    /\ step(touch(cur, raid_bdev_destruct(cur)))
    /\ UNCHANGED iovars

ModuleStopDone ==
    /\ Live
    /\ raid_bdev.h_unreg = "stopping"
    /\ step(touch(cur, raid_bdev_module_stop_done(cur)))
    /\ UNCHANGED iovars

\* The host calls back when the last channel of the io-device is released.
IoDeviceUnregisterCb ==
    /\ Live
    /\ raid_bdev.h_unreg = "io_device"
    /\ \A t \in Threads : ~raid_bdev.h_chan[t].open
    /\ step(touch(cur, raid_bdev_io_device_unregister_cb(cur)))
    /\ UNCHANGED iovars

\* A thread takes its first reference to the array's channel while the
\* array is visible to users.
ChannelCreate ==
    /\ Live
    /\ raid_bdev.h_registered /\ raid_bdev.h_io_device /\ raid_bdev.h_unreg = "none"
    /\ \E t \in Threads :
          /\ ~raid_bdev.h_chan[t].open
          /\ \E fail \in ChannelFaults : step(raid_bdev_create_cb(cur, t, fail))
    /\ UNCHANGED iovars

ChannelDestroy ==
    /\ Live
    /\ \E t \in Threads :
          /\ raid_bdev.h_chan[t].open
          /\ step(raid_bdev_destroy_cb(cur, t))
    /\ UNCHANGED iovars

\* A base bdev is registered in the system; the host has it examined.
BdevRegister ==
    /\ Live
    /\ ~raid_bdev.g_shutdown_started
    /\ \E b \in Bdevs :
          /\ ~raid_bdev.h_present[b]
          /\ \E outcome \in ExamineOutcomes :
                step(raid_bdev_examine([cur EXCEPT !.h_present[b] = TRUE], b, outcome))
    /\ UNCHANGED iovars

ExamineLoadSbCb ==
    /\ Live
    /\ \E b \in Bdevs, in \in ConfigureInputs :
          /\ raid_bdev.h_examine[b]
          /\ \E status \in LoadStatus(raid_bdev, b) :
                step(raid_bdev_examine_load_sb_cb(cur, b, status, in))
    /\ UNCHANGED iovars

UseAfterFreeCrash ==
    /\ Live
    /\ \/ ~raid_bdev.allocated /\ Pending(raid_bdev)
       \/ raid_bdev.g_stale
    /\ step([cur EXCEPT !.crashed = TRUE, !.g_uaf = TRUE])
    /\ UNCHANGED iovars

\* The superblock a mirror of MaxBase members left on its members after
\* the member of slot 0 was removed: written once by raid_bdev_configure,
\* once by the removal.
DegradedSb ==
    [ on |-> TRUE, uuid_set |-> TRUE, seq_number |-> 2, num_base_bdevs |-> MaxBase,
      module |-> Raid1Module,
      state |-> [i \in AllSlots |-> IF i = 0 THEN "FAILED" ELSE "CONFIGURED"],
      uuid |-> [i \in AllSlots |-> IF i = 0 THEN GoneUuid ELSE i] ]

\* Fresh base bdevs, all present.
BlankSystem == [NoArray EXCEPT !.h_present = [b \in Bdevs |-> TRUE]]

\* After a restart: a fresh bdev 0 is present, the surviving members of the
\* degraded mirror have not been discovered yet.
DegradedSystem ==
    [NoArray EXCEPT !.h_present = [b \in Bdevs |-> b = 0],
                    !.h_disk = [b \in Bdevs |-> IF b = 0 THEN NoSb ELSE DegradedSb]]

\* Membership life cycle of an array from its creation, no executor thread
\* taking a channel.
Init ==
    /\ raid_bdev = BlankSystem
    /\ raid_io = NoIo
    /\ base_channel = [i \in AllSlots |-> FALSE]

Next ==
    \/ RaidBdevCreate \/ AddBaseDevice \/ CheckSbCb \/ ConfigureWriteSbCb
    \/ RemoveBaseBdev \/ OnQuiesced \/ ChannelRemoveBaseBdev
    \/ ChannelsRemoveBaseBdevDone \/ OnUnquiesced \/ RemoveWriteSbCb
    \/ RaidBdevDelete \/ Destruct \/ ModuleStopDone \/ IoDeviceUnregisterCb
    \/ UseAfterFreeCrash

Spec == Init /\ [][Next]_vars

\* An array that is ONLINE, its executor threads taking and releasing
\* channels while members are removed and the array is deleted.
InitChannels ==
    /\ \E n \in 1 .. MaxBase, module \in Modules, superblock_enabled \in BOOLEAN :
          /\ create_ok(NoArray, n, module)
          /\ raid_bdev = OnlineArrayOf(n, module, superblock_enabled)
    /\ raid_io = NoIo
    /\ base_channel = [i \in AllSlots |-> FALSE]

NextChannels ==
    \/ RemoveBaseBdev \/ OnQuiesced \/ ChannelRemoveBaseBdev
    \/ ChannelsRemoveBaseBdevDone \/ OnUnquiesced \/ RemoveWriteSbCb
    \/ RaidBdevDelete \/ Destruct \/ ModuleStopDone \/ IoDeviceUnregisterCb
    \/ ChannelCreate \/ ChannelDestroy \/ UseAfterFreeCrash

SpecChannels == InitChannels /\ [][NextChannels]_vars

\* Threads.  The host calls raid_bdev_destruct on the thread that ends the
\* unregistration, which may be any thread; the channel callbacks run on
\* the executor thread that owns the channel; everything else runs on the
\* app thread.
DestructOn ==
    /\ Live
    /\ raid_bdev.h_unreg = "requested"
    /\ ~raid_bdev.h_msg
    /\ \E t \in {AppThread} \cup Threads :
          step(touch(cur, [raid_bdev_destruct_on(cur, t) EXCEPT !.g_thread = t]))
    /\ UNCHANGED iovars

\* The app thread takes the message and runs _raid_bdev_destruct.
DestructMsg ==
    /\ Live
    /\ raid_bdev.h_msg
    /\ step(touch(cur, raid_bdev_destruct([cur EXCEPT !.h_msg = FALSE])))
    /\ UNCHANGED iovars

ChannelCreateOn ==
    /\ Live
    /\ raid_bdev.h_registered /\ raid_bdev.h_io_device /\ raid_bdev.h_unreg = "none"
    /\ \E t \in Threads :
          /\ ~raid_bdev.h_chan[t].open
          /\ \E fail \in ChannelFaults :
                step([raid_bdev_create_cb(cur, t, fail) EXCEPT !.g_thread = t])
    /\ UNCHANGED iovars

ChannelDestroyOn ==
    /\ Live
    /\ \E t \in Threads :
          /\ raid_bdev.h_chan[t].open
          /\ step([raid_bdev_destroy_cb(cur, t) EXCEPT !.g_thread = t])
    /\ UNCHANGED iovars

ChannelRemoveBaseBdevOn ==
    /\ Live
    /\ \E s \in AllSlots :
          /\ raid_bdev.h_pipe[s].ph = "for_each_channel"
          /\ raid_bdev.h_pipe[s].at \in Threads
          /\ LET t == raid_bdev.h_pipe[s].at
                 r1 == IF raid_bdev.h_chan[t].open
                       THEN raid_bdev_channel_remove_base_bdev(cur, s, t)
                       ELSE cur
             IN  step([r1 EXCEPT !.h_pipe[s].at = @ + 1,
                                 !.g_thread = IF raid_bdev.h_chan[t].open
                                              THEN t ELSE AppThread])
    /\ UNCHANGED iovars

NextThreads ==
    \/ RemoveBaseBdev \/ OnQuiesced \/ ChannelRemoveBaseBdevOn
    \/ ChannelsRemoveBaseBdevDone \/ OnUnquiesced \/ RemoveWriteSbCb
    \/ RaidBdevDelete \/ DestructOn \/ DestructMsg \/ ModuleStopDone
    \/ IoDeviceUnregisterCb
    \/ ChannelCreateOn \/ ChannelDestroyOn \/ UseAfterFreeCrash

SpecThreads == InitChannels /\ [][NextThreads]_vars

\* Assembly after a restart: the members of the degraded mirror appear and
\* are examined, a fresh bdev is added, members are removed.
InitAssemble ==
    /\ raid_bdev = DegradedSystem
    /\ raid_io = NoIo
    /\ base_channel = [i \in AllSlots |-> FALSE]

NextAssemble ==
    \/ BdevRegister \/ ExamineLoadSbCb
    \/ AddBaseDevice \/ CheckSbCb \/ ConfigureWriteSbCb
    \/ RemoveBaseBdev \/ OnQuiesced \/ ChannelRemoveBaseBdev
    \/ ChannelsRemoveBaseBdevDone \/ OnUnquiesced \/ RemoveWriteSbCb
    \/ RaidBdevDelete \/ Destruct \/ IoDeviceUnregisterCb
    \/ UseAfterFreeCrash

SpecAssemble == InitAssemble /\ [][NextAssemble]_vars

\* Level modules with every kind of constraint and values from 0 to
\* MaxBase + 1.
CreateModules ==
    { [level |-> "raid1", base_bdevs_min |-> m, type |-> t, value |-> v, async_stop |-> FALSE] :
          m \in {1, 2}, t \in {"MAX_REMOVED", "MIN_OPERATIONAL", "UNSET"},
          v \in (0 .. (MaxBase + 1)) \cup {254, 256, 257, 258} }

\* raid_bdev_create with any member count and any module; the delivered
\* event carries the value it returns.
RaidBdevCreateAny ==
    /\ Live
    /\ raid_bdev.g_creates < MaxCreates
    /\ ~Pending(raid_bdev)
    /\ \E n \in 0 .. MaxBase, module \in CreateModules, superblock_enabled \in BOOLEAN :
          step([raid_bdev_create(cur, n, module, superblock_enabled) EXCEPT
                   !.g_event = [kind |-> "create", slot |-> n,
                                status |-> raid_bdev_create_rc(cur, n, module),
                                via |-> "direct"]])
    /\ UNCHANGED iovars

\* raid_bdev_add_base_device with any slot, any name and any failure of the
\* host; the delivered event carries the value it returns.
AddBaseDeviceAny ==
    /\ Live
    /\ raid_bdev.in_list
    /\ ~raid_bdev.destroy_started
    /\ \E slot \in 0 .. MaxBase, name \in Bdevs, in \in AddInputs :
          step([raid_bdev_add_base_device(cur, name, slot, in) EXCEPT
                   !.g_event = [kind |-> "add", slot |-> slot,
                                status |-> raid_bdev_add_base_device_rc(cur, name, slot, in),
                                via |-> "direct"]])
    /\ UNCHANGED iovars

\* Base bdevs before an array is created: bdev MaxBase - 1 present or not,
\* bdev 1 fresh or carrying the superblock of another array.
AddSystems ==
    { [NoArray EXCEPT !.h_present = [b \in Bdevs |-> b < MaxBase - 1 \/ last],
                      !.h_disk = [b \in Bdevs |-> IF b = 1 /\ used THEN DegradedSb ELSE NoSb]] :
          last \in BOOLEAN, used \in BOOLEAN }

\* Creation and deletion of arrays of every member count with every
\* module.
\* The bdev_raid_create request of an administrator.
RpcBdevRaidCreate ==
    /\ Live
    /\ ~raid_bdev.h_rpc.called
    /\ \E n \in 0 .. MaxBase, superblock_enabled \in BOOLEAN, early \in RpcFaults,
          outs \in [0 .. (MaxBase - 1) -> AddOutcomes] :
          step(rpc_bdev_raid_create(cur, n, Raid1Module, superblock_enabled, early, outs))
    /\ UNCHANGED iovars

\* The callback of an add that returned 0 arrives.
RpcAddBaseBdevCb ==
    /\ Live
    /\ \E i \in raid_bdev.h_rpc.pending, status \in IoStatus :
          step(rpc_bdev_raid_create_add_base_bdev_cb(
                   [cur EXCEPT !.h_rpc.pending = @ \ {i}], status))
    /\ UNCHANGED iovars

InitRpc ==
    /\ raid_bdev \in AddSystems
    /\ raid_io = NoIo
    /\ base_channel = [i \in AllSlots |-> FALSE]

NextRpc == RpcBdevRaidCreate \/ RpcAddBaseBdevCb

SpecRpc == InitRpc /\ [][NextRpc]_vars

InitCreate ==
    /\ raid_bdev \in AddSystems
    /\ raid_io = NoIo
    /\ base_channel = [i \in AllSlots |-> FALSE]

NextCreate == RaidBdevCreateAny \/ RaidBdevDelete

SpecCreate == InitCreate /\ [][NextCreate]_vars

\* Adds by slot to a mirror an administrator has just created, with the
\* failures the host can report, until the array is configured or deleted.
InitAdd ==
    /\ \E sys \in AddSystems, n \in 1 .. MaxBase, superblock_enabled \in BOOLEAN :
          raid_bdev = raid_bdev_create(sys, n, Raid1Module, superblock_enabled)
    /\ raid_io = NoIo
    /\ base_channel = [i \in AllSlots |-> FALSE]

NextAdd ==
    \/ AddBaseDeviceAny \/ CheckSbCb \/ ConfigureWriteSbCb
    \/ RaidBdevDelete \/ Destruct \/ IoDeviceUnregisterCb
    \/ UseAfterFreeCrash

SpecAdd == InitAdd /\ [][NextAdd]_vars

\* Sequence numbers of the two generations of superblocks found on the
\* base bdevs.
SeqOld == 7
SeqNew == 9

\* A superblock of the mirror of MaxBase members, written to its members
\* when the members of the slots in 'failed' had been removed; the bdevs
\* of the slots in 'gone' are not the bdevs of the system.
DiskSb(seq, failed, gone) ==
    [ on |-> TRUE, uuid_set |-> TRUE, seq_number |-> seq, num_base_bdevs |-> MaxBase,
      module |-> Raid1Module,
      state |-> [i \in AllSlots |-> IF i \in failed THEN "FAILED" ELSE "CONFIGURED"],
      uuid |-> [i \in AllSlots |-> IF i \in gone THEN GoneUuid ELSE i] ]

OldSbs == {DiskSb(SeqOld, failed, {}) : failed \in {{}, {MaxBase - 1}}}
NewSbs == {DiskSb(SeqNew, failed, gone) : failed \in {{}, {0}}, gone \in {{}, {0}}}

RECURSIVE pending_adds(_, _)
\* raid_bdev_add_base_device by name for the slots from i on, no bdev of
\* that name being present yet.
pending_adds(rb, i) ==
    IF i >= rb.num_base_bdevs THEN rb
    ELSE pending_adds(raid_bdev_add_base_device(rb, i, i, AllOk), i + 1)

\* An array an administrator created before its base bdevs appeared: a
\* mirror of MaxBase - 1 members, every slot waiting for a bdev by name.
PendingArray(superblock_enabled) ==
    pending_adds(raid_bdev_create(NoArray, MaxBase - 1, Raid1Module, superblock_enabled), 0)

\* Before the base bdevs appear: no array or the array of an
\* administrator; on every base bdev no superblock, one of the older or
\* one of the newer generation.
ExamineSystems ==
    { [a EXCEPT !.h_disk = [b \in Bdevs |->
                                CASE gen[b] = "old" -> old
                                  [] gen[b] = "new" -> new
                                  [] OTHER -> NoSb]] :
          a \in {NoArray, PendingArray(FALSE), PendingArray(TRUE)},
          old \in OldSbs, new \in NewSbs,
          gen \in [Bdevs -> {"none", "old", "new"}] }

\* Assembly: base bdevs appear in any order and are examined, arrays are
\* configured, deleted and unregistered meanwhile.
InitExamine ==
    /\ raid_bdev \in ExamineSystems
    /\ raid_io = NoIo
    /\ base_channel = [i \in AllSlots |-> FALSE]

NextExamine ==
    \/ BdevRegister \/ ExamineLoadSbCb \/ ConfigureWriteSbCb
    \/ RaidBdevDelete \/ Destruct \/ IoDeviceUnregisterCb
    \/ UseAfterFreeCrash

SpecExamine == InitExamine /\ [][NextExamine]_vars

----------------------------------------------------------------------------
(***************************************************************************)
(* Data-path properties (checked under SpecIO).                            *)
(***************************************************************************)

\* The front-end completions the core issues itself, without a final
\* sub-completion: a READ whose buffer could not be obtained, a request of
\* an unknown type, a RESET whose base submission failed.
DirectCompletion == raid_io.pc \in {"nobuf", "invalid", "submit_error"}

\* C2: for every completed front-end request the 'completed' arguments of
\* all raid_bdev_io_complete_part calls add up to the value loaded into
\* base_bdev_io_remaining, and the request is completed exactly once.
C2_PartsSumAndOnce ==
    raid_io.completions > 0 =>
        /\ raid_io.parts_sum = raid_io.loaded
        /\ raid_io.completions = 1

\* C3 as stated: the rolled-up status never returns to SUCCESS once a
\* sub-completion failed; a front-end completion with SUCCESS means every
\* sub-completion reported SUCCESS, and a completion with S # SUCCESS means
\* some sub-completion reported S.
C3_StatusRollup ==
    /\ raid_io.first_fail # "NONE" => raid_io.status # "SUCCESS"
    /\ raid_io.completions > 0 =>
          /\ raid_io.final = "SUCCESS" => raid_io.reported \subseteq {"SUCCESS"}
          /\ raid_io.final # "SUCCESS" => raid_io.final \in raid_io.reported

\* C3 as amended: as above, except that a request the core completes
\* directly (no buffer, unknown type, base submission error) completes
\* FAILED whatever its sub-completions reported.
C3_StatusRollupAmended ==
    /\ raid_io.first_fail # "NONE" => raid_io.status # "SUCCESS"
    /\ raid_io.first_fail = "NONE" => raid_io.status = "SUCCESS"
    /\ raid_io.completions > 0 =>
          /\ raid_io.final = "SUCCESS" => raid_io.reported \subseteq {"SUCCESS"}
          /\ raid_io.final # "SUCCESS" =>
                \/ raid_io.final \in raid_io.reported
                \/ DirectCompletion /\ raid_io.final = "FAILED"

\* A request completed by the aggregator with a failure, after a failing
\* part and a successful part.
C3_Witness ==
    /\ raid_io.completions = 1
    /\ ~DirectCompletion
    /\ raid_io.final # "SUCCESS"
    /\ raid_io.reported = {"SUCCESS", raid_io.final}
    /\ raid_io.loaded > 1

\* C4 as stated: the request completes with the status of the first failing
\* sub-completion.
C4_FirstFailureWins ==
    (raid_io.completions > 0 /\ ~DirectCompletion /\ raid_io.first_fail # "NONE")
        => raid_io.final = raid_io.first_fail

\* C4 as amended: a successful sub-completion never overwrites a failure,
\* a failing one does; the request completes with the status of the last
\* failing sub-completion.
C4_LastFailureWins ==
    /\ raid_io.status = (IF raid_io.last_fail = "NONE" THEN "SUCCESS"
                         ELSE raid_io.last_fail)
    /\ (raid_io.completions > 0 /\ ~DirectCompletion)
           => raid_io.final = raid_io.status

\* A request whose sub-completions failed with two different statuses and
\* then succeeded, completed with the later failure.
C4_Witness ==
    /\ raid_io.completions = 1
    /\ ~DirectCompletion
    /\ raid_io.reported = BdevIoStatus
    /\ raid_io.first_fail # raid_io.last_fail
    /\ raid_io.final = raid_io.last_fail

\* C5: when the front-end completion is issued, no base sub-I/O submitted
\* for the request is still outstanding.
C5_CompletionAfterLastSubIo ==
    raid_io.completions > 0 => raid_io.out_at_done = 0

\* C1: every array in the registry keeps
\* 0 < min_operational <= operational <= N and discovered <= N.
C1_CountersInRange ==
    raid_bdev.in_list =>
        /\ 0 < raid_bdev.min_base_bdevs_operational
        /\ raid_bdev.min_base_bdevs_operational <= raid_bdev.num_base_bdevs_operational
        /\ raid_bdev.num_base_bdevs_operational <= raid_bdev.num_base_bdevs
        /\ raid_bdev.num_base_bdevs_discovered <= raid_bdev.num_base_bdevs

\* The callback of a removal was delivered by raid_bdev_remove_base_bdev_done
\* with status 0 in the last step, and the array is ONLINE.
RemoveCompleted(s) ==
    /\ raid_bdev.g_event = [kind |-> "remove", slot |-> s, status |-> "0", via |-> "done"]
    /\ raid_bdev.state = "ONLINE"

\* C6: when the removal of a slot has completed on an array that remains
\* ONLINE, no executor channel holds a base channel for the slot, also
\* not a channel that was created while the removal was in progress.
C6_NoHandleAfterRemove ==
    \A s \in AllSlots :
        RemoveCompleted(s) => \A t \in Threads : ~raid_bdev.h_chan[t].base[s]

\* What C7 asks of one step, for slot s of an array that is and stays ONLINE.
C7_Order(s) ==
    LET ph == raid_bdev.h_pipe[s].ph
        ph2 == raid_bdev'.h_pipe[s].ph
        open == raid_bdev.base_bdev_info[s].desc # NoBdev
        open2 == raid_bdev'.base_bdev_info[s].desc # NoBdev
        held == \E t \in Threads : raid_bdev.h_chan[t].base[s]
        fired == /\ raid_bdev'.g_event.kind = "remove" /\ raid_bdev'.g_event.slot = s
                 /\ raid_bdev'.g_event.via = "done" /\ raid_bdev'.g_event.status = "0"
    IN  /\ ph = "quiesce" => ph2 \in {"quiesce", "for_each_channel", "none"}
        /\ ph = "for_each_channel" => ph2 \in {"for_each_channel", "unquiesce"}
        /\ ph = "unquiesce" => ph2 \in {"unquiesce", "write_sb", "none"}
        /\ ph = "write_sb" => ph2 \in {"write_sb", "none"}
        /\ (ph = "for_each_channel" /\ ph2 = "unquiesce") => ~held
        /\ (open /\ ~open2) => (ph = "unquiesce" /\ ph2 # "unquiesce" /\ ~held)
        /\ (ph2 = "write_sb" /\ ph # "write_sb") => (~open2 /\ raid_bdev.sb.on)
        /\ fired => /\ ~open2
                     /\ ph2 = "none"
                     /\ ph = IF raid_bdev.sb.on THEN "write_sb" ELSE "unquiesce"

\* C7: a benign removal goes through quiesce, the release of the slot's
\* handle on every channel, unquiesce, the close of the descriptor, the
\* superblock write (if any) and the callback, in this order; the
\* descriptor is not closed while a channel holds a handle for the slot.
C7_BenignRemoveOrder ==
    [][(raid_bdev.state = "ONLINE" /\ raid_bdev'.state = "ONLINE")
           => \A s \in AllSlots : C7_Order(s)]_vars

\* C8: when a removal reaches the superblock update, the CONFIGURED entry
\* of the removed slot exists; the update marks that entry FAILED, leaves
\* the other entries alone and raises the sequence number.
C8_SuperblockReflectsRemove ==
    [][\A s \in AllSlots :
          (raid_bdev.h_pipe[s].ph = "unquiesce" /\ raid_bdev'.h_pipe[s].ph = "write_sb")
              => /\ raid_bdev.sb.state[s] = "CONFIGURED"
                 /\ raid_bdev'.sb.state[s] = "FAILED"
                 /\ \A j \in AllSlots \ {s} : raid_bdev'.sb.state[j] = raid_bdev.sb.state[j]
                 /\ raid_bdev'.sb.seq_number > raid_bdev.sb.seq_number]_vars

\* A step that is an accepted removal of bdev b from an ONLINE array.
RemoveOnline(b, in) ==
    LET S == raid_bdev_find_base_info_by_bdev(raid_bdev, b)
    IN  /\ Live
        /\ S # {}
        /\ ~raid_bdev.base_bdev_info[first_slot(S)].remove_scheduled
        /\ raid_bdev.state = "ONLINE"
        /\ raid_bdev' = raid_bdev_remove_base_bdev(cur, b, TRUE, in)

\* C9: a removal on an ONLINE array with operational == min_operational
\* takes the array OFFLINE and has it unregistered; with operational >
\* min_operational the array stays ONLINE and operational drops by one.
\* An array is never ONLINE with operational < min_operational.
C9_RemoveThreshold ==
    /\ [](raid_bdev.in_list /\ raid_bdev.state = "ONLINE"
            => raid_bdev.num_base_bdevs_operational >= raid_bdev.min_base_bdevs_operational)
    /\ [][\A b \in Bdevs, in \in RemoveInputs :
            RemoveOnline(b, in) =>
                IF raid_bdev.num_base_bdevs_operational = raid_bdev.min_base_bdevs_operational
                THEN raid_bdev'.state = "OFFLINE" /\ raid_bdev'.h_unreg = "requested"
                ELSE /\ raid_bdev'.state = "ONLINE"
                     /\ raid_bdev'.num_base_bdevs_operational
                            = raid_bdev.num_base_bdevs_operational - 1]_vars

RemoveScheduled(b) ==
    LET S == raid_bdev_find_base_info_by_bdev(raid_bdev, b)
    IN  S # {} /\ raid_bdev.base_bdev_info[first_slot(S)].remove_scheduled

\* C11: a remove request for a slot whose remove_scheduled flag is set
\* returns 0 and changes nothing: counters, state, slot fields, the
\* stored callback, the channels.
C11_RepeatedRemoveIsNoop ==
    \A b \in Bdevs, cb \in BOOLEAN, in \in RemoveInputs :
        RemoveScheduled(b) =>
            /\ raid_bdev_remove_base_bdev_rc(raid_bdev, b) = "0"
            /\ raid_bdev_remove_base_bdev(raid_bdev, b, cb, in) = raid_bdev

\* A second request can arrive while the channels are being visited for
\* the first.
C11_Witness ==
    \E b \in Bdevs :
        /\ RemoveScheduled(b)
        /\ \E s \in AllSlots : /\ raid_bdev.base_bdev_info[s].desc = b
                                /\ raid_bdev.h_pipe[s].ph = "for_each_channel"
        /\ \E t \in Threads : raid_bdev.h_chan[t].open

\* The callback of a delete that found destroy_started set.
AlreadyEvent == [kind |-> "delete", slot |-> 0, status |-> "EALREADY", via |-> "direct"]

\* C12: a delete of an array whose destroy_started flag is set reports
\* -EALREADY to its callback and changes nothing else: the array, its
\* slots and the first delete in progress are as before.
C12_RepeatedDeleteIsNoop ==
    (raid_bdev.in_list /\ raid_bdev.destroy_started) =>
        raid_bdev_delete(cur, DeleteCb) = [cur EXCEPT !.g_event = AlreadyEvent]

\* A second delete has been answered while the unregistration started by
\* the first is in progress.
C12_Witness ==
    /\ raid_bdev.g_event = AlreadyEvent
    /\ raid_bdev.destroy_started
    /\ raid_bdev.h_unreg # "none"

\* C13: whenever the state of an array is set to ONLINE, discovered ==
\* operational holds at that instant, also when the configuration is
\* completed by the callback of the superblock write and members were
\* removed or added while the write was outstanding.
C13_OnlineOnlyWhenComplete ==
    [][(raid_bdev.state # "ONLINE" /\ raid_bdev'.state = "ONLINE" /\ raid_bdev'.in_list)
          => raid_bdev'.num_base_bdevs_discovered = raid_bdev'.num_base_bdevs_operational]_vars

\* C14: in every state a slot of an array holds an open descriptor if and
\* only if its is_configured flag is set, also while the superblock check
\* of a new add is outstanding and after that check ended with an error
\* other than "no valid superblock".
C14_DescIffConfigured ==
    raid_bdev.in_list =>
        \A s \in AllSlots :
            (raid_bdev.base_bdev_info[s].desc # NoBdev)
                <=> raid_bdev.base_bdev_info[s].is_configured

\* C15: every examine of a base bdev signals examine-done exactly once and
\* releases the transient descriptor and channel it opened, on every
\* path: no second signal is ever made, and an examine that is no longer
\* waiting for its superblock read has signalled once and holds nothing.
C15_ExamineDoneOnce ==
    \A b \in Bdevs :
        /\ raid_bdev.h_examine_done[b] <= 1
        /\ (raid_bdev.h_present[b] /\ ~raid_bdev.h_examine[b])
               => (raid_bdev.h_examine_done[b] = 1 /\ ~raid_bdev.h_examine_ctx[b])

\* What an examine may not touch when it is to be a no-op: the registry,
\* the array with its counters, state, superblock and slots, what the
\* host holds of it, and the process itself.
ArrayView(rb) ==
    [ in_list |-> rb.in_list, allocated |-> rb.allocated,
      num_base_bdevs |-> rb.num_base_bdevs,
      min_base_bdevs_operational |-> rb.min_base_bdevs_operational,
      num_base_bdevs_discovered |-> rb.num_base_bdevs_discovered,
      num_base_bdevs_operational |-> rb.num_base_bdevs_operational,
      state |-> rb.state, destroy_started |-> rb.destroy_started,
      module |-> rb.module, sb |-> rb.sb, base_bdev_info |-> rb.base_bdev_info,
      h_registered |-> rb.h_registered, h_io_device |-> rb.h_io_device,
      h_started |-> rb.h_started, h_unreg |-> rb.h_unreg,
      h_cfg_write |-> rb.h_cfg_write, h_check_sb |-> rb.h_check_sb,
      crashed |-> rb.crashed ]

\* The examine of bdev b, its superblock read ending with 'status',
\* leaves all of that as it is.
ExamineUnchanged(b, status) ==
    \A in \in ConfigureInputs :
        ArrayView(raid_bdev_examine_load_sb_cb(cur, b, status, in)) = ArrayView(cur)

\* An array with the uuid of the superblocks is in the registry.
KnownArray == raid_bdev.in_list /\ raid_bdev.sb.on

\* A slot without descriptor waits for a bdev of the name of b.
PendingByName(b) ==
    /\ raid_bdev.in_list
    /\ \E i \in AllSlots : /\ i < raid_bdev.num_base_bdevs
                            /\ raid_bdev.base_bdev_info[i].desc = NoBdev
                            /\ raid_bdev.base_bdev_info[i].name = b

\* The entries of superblock sb that carry the uuid of bdev b.
SbEntries(sb, b) == {i \in AllSlots : i < sb.num_base_bdevs /\ sb.uuid[i] = b}

\* C16 (as stated): the examine of a base whose superblock uuid matches no
\* known array and whose name matches no pending-by-name slot is a no-op.
C16_UnknownBaseIsNoop ==
    \A b \in Bdevs :
        (raid_bdev.h_examine[b] /\ raid_bdev.h_disk[b].on
         /\ ~KnownArray /\ ~PendingByName(b))
            => ExamineUnchanged(b, "0")

\* C16 (amended): the examine of a base is a no-op when the superblock
\* read fails, when the base has no valid superblock and its name matches
\* no pending-by-name slot, and when its superblock matches no known
\* array and has no entry with the uuid of the base.
C16_UnknownBaseIsNoopAmended ==
    \A b \in Bdevs :
        raid_bdev.h_examine[b] =>
            /\ ExamineUnchanged(b, "EIO")
            /\ (~raid_bdev.h_disk[b].on /\ ~PendingByName(b))
                   => ExamineUnchanged(b, "EINVAL")
            /\ (raid_bdev.h_disk[b].on /\ ~KnownArray
                 /\ SbEntries(raid_bdev.h_disk[b], b) = {})
                   => ExamineUnchanged(b, "0")

\* A base whose superblock has no entry for it was examined with no array
\* of that uuid in the registry, and another base waits for its read.
C16_Witness ==
    \E b \in Bdevs :
        /\ raid_bdev.g_event = [kind |-> "examine", slot |-> b, status |-> "0",
                                via |-> "examine_done"]
        /\ raid_bdev.h_disk[b].on
        /\ SbEntries(raid_bdev.h_disk[b], b) = {}
        /\ ~KnownArray
        /\ \E c \in Bdevs \ {b} : raid_bdev.h_examine[c]

\* The superblock on bdev b is newer than the superblock of the array of
\* its uuid.
NewerOnDisk(b) ==
    /\ KnownArray
    /\ raid_bdev.h_disk[b].on
    /\ raid_bdev.h_disk[b].seq_number > raid_bdev.sb.seq_number

\* C17: when examine finds a superblock newer than that of the array of
\* the same uuid and the array is not CONFIGURING, the examine is ignored:
\* the array, its superblock, its slots and the registry are unchanged
\* and the base is not bound.
C17_NewerSbIgnoredWhenCommitted ==
    \A b \in Bdevs :
        (raid_bdev.h_examine[b] /\ NewerOnDisk(b) /\ raid_bdev.state # "CONFIGURING")
            => /\ ExamineUnchanged(b, "0")
               /\ \A in \in ConfigureInputs :
                      ~claimed(raid_bdev_examine_load_sb_cb(cur, b, "0", in), b)

\* A base with a newer superblock was examined while the array, assembled
\* from the older superblocks, was ONLINE.
C17_Witness ==
    \E b \in Bdevs :
        /\ raid_bdev.g_event = [kind |-> "examine", slot |-> b, status |-> "0",
                                via |-> "examine_done"]
        /\ NewerOnDisk(b)
        /\ raid_bdev.state = "ONLINE"
        /\ raid_bdev.h_registered

\* The examine of base b ended with the given status in the step.
ExamineEnded(rb, b, status) ==
    rb.g_event = [kind |-> "examine", slot |-> b, status |-> status, via |-> "examine_done"]

\* C18: when the examine of a base finds a superblock with a greater sequence
\* number for the uuid of an array that was assembled from a superblock and
\* is still CONFIGURING, the examine leaves exactly one array of that uuid
\* in the registry and that array
\* carries at least the sequence number found on the disk; and no examine
\* lowers the sequence number an array of the uuid holds in memory.
C18_NewerSbReplacesConfiguring ==
    [][\A b \in Bdevs :
          (raid_bdev.h_examine[b] /\ ExamineEnded(raid_bdev', b, "0")) =>
              /\ (NewerOnDisk(b) /\ raid_bdev.sb.uuid_set /\ raid_bdev.state = "CONFIGURING") =>
                     /\ raid_bdev'.in_list /\ raid_bdev'.allocated
                     /\ raid_bdev'.sb.on
                     /\ raid_bdev'.sb.seq_number >= raid_bdev.h_disk[b].seq_number
              /\ (KnownArray /\ raid_bdev'.in_list /\ raid_bdev'.sb.on) =>
                     raid_bdev'.sb.seq_number >= raid_bdev.sb.seq_number]_vars

\* Bdev b is bound as a member of the array.
BoundMember(rb, b) ==
    \E i \in AllSlots : /\ i < rb.num_base_bdevs
                         /\ rb.base_bdev_info[i].desc = b
                         /\ rb.base_bdev_info[i].is_configured

\* Superblock sb has a CONFIGURED entry with the uuid of bdev b.
ActiveInSb(sb, b) == \E i \in SbEntries(sb, b) : sb.state[i] = "CONFIGURED"

\* Two bases only: a carries the older superblock and its examine has ended,
\* the array assembled from it is still there with a bound, no array was
\* created by an administrator, and the examine of b, which carries the
\* newer superblock and is an active member in it, is outstanding.
ArbitrationPending(a, b) ==
    /\ a # b
    /\ raid_bdev.g_creates = 0
    /\ \A c \in Bdevs \ {a, b} : ~raid_bdev.h_present[c]
    /\ raid_bdev.h_disk[a].on /\ raid_bdev.h_disk[a].seq_number = SeqOld
    /\ raid_bdev.h_disk[b].on /\ raid_bdev.h_disk[b].seq_number = SeqNew
    /\ ActiveInSb(raid_bdev.h_disk[b], b)
    /\ raid_bdev.h_present[a] /\ ~raid_bdev.h_examine[a]
    /\ raid_bdev.h_examine_done[a] = 1
    /\ KnownArray /\ raid_bdev.sb.seq_number = SeqOld
    /\ raid_bdev.state = "CONFIGURING" /\ ~raid_bdev.destroy_started
    /\ BoundMember(raid_bdev, a)
    /\ raid_bdev.h_examine[b]

\* C19: bases A (sequence number 7) and B (sequence number 9) of one array
\* uuid are examined in the order A, B with no array in memory before; when
\* the examine of B has ended there is one array, assembled from the
\* superblock of B, and A is bound as a member of it whenever the superblock
\* of B has a CONFIGURED entry with the uuid of A.
C19_ArbitrationScenario ==
    [][\A a, b \in Bdevs :
          (ArbitrationPending(a, b) /\ ExamineEnded(raid_bdev', b, "0")) =>
              /\ raid_bdev'.in_list /\ raid_bdev'.allocated
              /\ raid_bdev'.sb.on /\ raid_bdev'.sb.seq_number >= SeqNew
              /\ BoundMember(raid_bdev', b)
              /\ ActiveInSb(raid_bdev.h_disk[b], a) => BoundMember(raid_bdev', a)]_vars

\* The superblock raid_bdev_examine_sb takes as reference for bdev b: the
\* one in memory when the array of the uuid holds a greater sequence
\* number, the one read from b otherwise.
RefSb(b) ==
    IF KnownArray /\ raid_bdev.h_disk[b].seq_number < raid_bdev.sb.seq_number
    THEN raid_bdev.sb
    ELSE raid_bdev.h_disk[b]

\* C20: when the reference superblock has no entry with the uuid of the
\* examined base, or has one that is not CONFIGURED, the examine creates
\* and deletes no array and changes no slot, counter or state.
C20_InactiveBaseIgnored ==
    \A b \in Bdevs :
        (/\ raid_bdev.h_examine[b]
         /\ raid_bdev.h_disk[b].on /\ raid_bdev.h_disk[b].uuid_set
         /\ ~ActiveInSb(RefSb(b), b))
            => ExamineUnchanged(b, "0")

\* The slot has no name and a null uuid.
Vacant(rb, slot) ==
    /\ rb.base_bdev_info[slot].name = NoBdev
    /\ rb.base_bdev_info[slot].uuid = NoBdev

\* C21: an add by slot is accepted only for a slot index below
\* num_base_bdevs whose slot has no name and a null uuid; an index out of
\* range returns -EINVAL and an assigned slot returns -EBUSY, both leaving
\* every field as it was; when the named bdev is not present the name is
\* stored in the slot, nothing else changes and the add returns -ENODEV.
C21_AddBySlotGuards ==
    raid_bdev.in_list =>
        \A slot \in 0 .. MaxBase, name \in Bdevs, in \in AddInputs :
            LET next == raid_bdev_add_base_device(cur, name, slot, in)
                rc == raid_bdev_add_base_device_rc(cur, name, slot, in)
                ok == slot < raid_bdev.num_base_bdevs /\ Vacant(raid_bdev, slot)
            IN  /\ slot >= raid_bdev.num_base_bdevs => rc = "EINVAL" /\ next = cur
                /\ (slot < raid_bdev.num_base_bdevs /\ ~Vacant(raid_bdev, slot))
                       => rc = "EBUSY" /\ next = cur
                /\ rc = "0" => ok
                /\ (ok /\ ~raid_bdev.h_present[name])
                       => /\ rc = "ENODEV"
                          /\ next = [cur EXCEPT !.base_bdev_info[slot].name = name]

\* An add has just returned -ENODEV and left the name of an absent bdev in
\* the slot.
C21_Witness ==
    /\ raid_bdev.g_event.kind = "add" /\ raid_bdev.g_event.status = "ENODEV"
    /\ raid_bdev.g_event.slot < raid_bdev.num_base_bdevs
    /\ raid_bdev.base_bdev_info[raid_bdev.g_event.slot].name \in Bdevs
    /\ ~raid_bdev.h_present[raid_bdev.base_bdev_info[raid_bdev.g_event.slot].name]
    /\ raid_bdev.base_bdev_info[raid_bdev.g_event.slot].desc = NoBdev
    /\ raid_bdev.num_base_bdevs_discovered = 0

\* raid_bdev_configure ran in the handler that led from rb to next: the
\* module failed to start, or it started and the superblock write was
\* issued, the array went ONLINE or the registration failed.
ConfigureRan(rb, next) ==
    \/ next.g_faults # rb.g_faults
    \/ next.g_writes # rb.g_writes
    \/ next.state = "ONLINE" /\ rb.state # "ONLINE"

\* C22: when the superblock read of a new add completes on an array that
\* still exists: a valid superblock releases the slot (descriptor closed,
\* claim released, name cleared, not configured, discovered unchanged); no
\* valid superblock marks the slot configured, raises discovered by exactly
\* one, and raid_bdev_configure runs exactly when discovered then equals
\* operational.
C22_NewAddSuperblockCheck ==
    raid_bdev.allocated =>
        \A s \in AllSlots, in \in ConfigureInputs :
            raid_bdev.h_check_sb[s] =>
                LET b == raid_bdev.base_bdev_info[s].desc
                    found == raid_bdev_configure_base_bdev_check_sb_cb(cur, s, "0", in)
                    none == raid_bdev_configure_base_bdev_check_sb_cb(cur, s, "EINVAL", in)
                    load == LoadStatus(raid_bdev, CheckedBdev(raid_bdev, s))
                IN  /\ "0" \in load =>
                          /\ found.base_bdev_info[s].desc = NoBdev
                          /\ found.base_bdev_info[s].name = NoBdev
                          /\ ~found.base_bdev_info[s].is_configured
                          /\ b \in Bdevs => ~claimed(found, b)
                          /\ found.num_base_bdevs_discovered = raid_bdev.num_base_bdevs_discovered
                          /\ found.state = raid_bdev.state
                          /\ found.h_started = raid_bdev.h_started
                    /\ "EINVAL" \in load =>
                          /\ none.base_bdev_info[s].is_configured
                          /\ none.num_base_bdevs_discovered = raid_bdev.num_base_bdevs_discovered + 1
                          /\ ConfigureRan(cur, none)
                                 <=> (none.num_base_bdevs_discovered = none.num_base_bdevs_operational)

\* C23: an add to a vacant slot that fails with an error other than -ENODEV
\* leaves the slot vacant again (no name, no descriptor and hence no claim)
\* and a later add to the same slot is not turned away with -EBUSY.
C23_FailedAddUndone ==
    raid_bdev.in_list =>
        \A slot \in 0 .. MaxBase, name \in Bdevs, in \in AddInputs :
            LET next == raid_bdev_add_base_device(cur, name, slot, in)
                rc == raid_bdev_add_base_device_rc(cur, name, slot, in)
            IN  (/\ slot < raid_bdev.num_base_bdevs
                 /\ Vacant(raid_bdev, slot)
                 /\ rc \notin {"0", "ENODEV"})
                    => /\ next.base_bdev_info[slot].name = NoBdev
                       /\ next.base_bdev_info[slot].desc = NoBdev
                       /\ \A later \in Bdevs :
                              raid_bdev_add_base_device_rc(next, later, slot, AllOk) # "EBUSY"


\* C24: a creation succeeds only when the value derived from the module's
\* constraint in 8-bit unsigned arithmetic (N - value for MAX_REMOVED, value
\* for MIN_OPERATIONAL, N for UNSET, whose value must be 0) lies in 1..N,
\* and the array then carries that value; otherwise the creation returns
\* -EINVAL and the registry is as before.
C24_MinOperationalDerivation ==
    ~raid_bdev.in_list =>
        \A n \in 0 .. MaxBase, module \in CreateModules, superblock_enabled \in BOOLEAN :
            LET next == raid_bdev_create(cur, n, module, superblock_enabled)
                rc == raid_bdev_create_rc(cur, n, module)
                derived == CASE module.type = "MAX_REMOVED" -> (n - module.value) % 256
                             [] module.type = "MIN_OPERATIONAL" -> module.value % 256
                             [] module.type = "UNSET" -> n
                valid == /\ module.type = "UNSET" => module.value = 0
                         /\ 0 < derived /\ derived <= n
            IN  /\ rc = "0" => /\ valid
                               /\ next.in_list
                               /\ next.min_base_bdevs_operational = derived
                /\ ~valid => rc = "EINVAL" /\ next = cur

\* An array was created with a MAX_REMOVED value above its member count:
\* the 8-bit difference wrapped into 1..N.
C24_Witness ==
    /\ raid_bdev.g_event.kind = "create" /\ raid_bdev.g_event.status = "0"
    /\ raid_bdev.in_list
    /\ raid_bdev.module.type = "MAX_REMOVED"
    /\ raid_bdev.module.value > raid_bdev.num_base_bdevs
    /\ raid_bdev.min_base_bdevs_operational
           = (raid_bdev.num_base_bdevs - raid_bdev.module.value) % 256
    /\ raid_bdev.min_base_bdevs_operational \in 1 .. raid_bdev.num_base_bdevs

\* One run of the fan-out of a RESET: the step of raid_bdev_submit_request
\* or of the wait-queue callback.
ResetRun ==
    /\ raid_io'.type = "RESET"
    /\ IF raid_io.waitq
       THEN ~raid_io'.waitq \/ raid_io'.waits # raid_io.waits
       ELSE IoFree /\ raid_io' # raid_io

\* C25: a RESET is fanned out to all N slots: a slot without a channel is
\* passed without a base reset, a slot with a channel gets exactly one base
\* reset, the request completes once every slot has been handled and every
\* base reset has completed, with SUCCESS exactly when no base reset failed;
\* when no slot has a channel it completes with SUCCESS in the submit call.
C25_ResetFanOut ==
    /\ [](raid_io.type = "RESET" =>
            /\ \A i \in Slots : raid_io.resets[i] <= 1
            /\ raid_io.completions >= 1 =>
                  /\ raid_io.completions = 1
                  /\ raid_io.submitted = num_base_bdevs
                  /\ raid_io.out_at_done = 0
                  /\ (raid_io.final = "SUCCESS") <=> ("FAILED" \notin raid_io.reported))
    /\ [][ResetRun =>
            LET start == IF raid_io.waitq THEN raid_io.submitted ELSE 0
                before == IF raid_io.waitq THEN raid_io.resets
                          ELSE [i \in 0 .. (MaxBase - 1) |-> 0]
            IN  /\ \A i \in Slots :
                      IF start <= i /\ i < raid_io'.submitted /\ base_channel[i]
                      THEN raid_io'.resets[i] = before[i] + 1
                      ELSE raid_io'.resets[i] = before[i]
                /\ (~raid_io.waitq /\ \A i \in Slots : ~base_channel[i])
                      => raid_io'.completions = 1 /\ raid_io'.final = "SUCCESS"]_vars

\* C26: a base reset submission that returns -ENOMEM puts the request on
\* the wait queue once and stops the fan-out at that slot; the retry resumes
\* at the saved cursor: the slots below it keep the resets they had, every
\* slot it passes is handled once, the cursor never moves back, and
\* base_bdev_io_remaining is loaded once per request, never on a retry.
C26_ResetRetry ==
    /\ [](raid_io.type = "RESET" =>
            /\ raid_io.loads <= 1
            /\ \A i \in Slots : raid_io.resets[i] <= 1
            /\ raid_io.waitq =>
                  /\ raid_io.submitted < num_base_bdevs
                  /\ raid_io.leg[raid_io.submitted] = "none"
                  /\ raid_io.resets[raid_io.submitted] = 0
                  /\ raid_io.completions = 0
                  /\ raid_io.remaining >= num_base_bdevs - raid_io.submitted)
    /\ [][(ResetRun /\ raid_io.waitq) =>
            /\ raid_io'.submitted >= raid_io.submitted
            /\ raid_io'.loads = raid_io.loads
            /\ raid_io'.loaded = raid_io.loaded
            /\ raid_io'.waits \in {raid_io.waits, raid_io.waits + 1}
            /\ raid_io'.waitq <=> (raid_io'.waits = raid_io.waits + 1)
            /\ \A i \in Slots :
                  IF raid_io.submitted <= i /\ i < raid_io'.submitted /\ base_channel[i]
                  THEN raid_io'.resets[i] = 1 /\ raid_io.resets[i] = 0
                  ELSE raid_io'.resets[i] = raid_io.resets[i]]_vars

\* A RESET on at least two slots went to the wait queue MaxWaits times and
\* completed with every slot reset exactly once.
C26_Witness ==
    /\ raid_io.type = "RESET"
    /\ num_base_bdevs >= 2
    /\ raid_io.waits = MaxWaits
    /\ raid_io.completions = 1
    /\ \A i \in Slots : raid_io.resets[i] = 1

C28_ChannelSnapshot ==
    (raid_bdev.allocated /\ raid_bdev.state = "ONLINE") =>
        \A t \in Threads, fail \in ChannelFaults :
            ~raid_bdev.h_chan[t].open =>
                LET next == raid_bdev_create_cb(cur, t, fail)
                    rc == raid_bdev_create_cb_rc(cur, t, fail)
                IN  /\ fail.kind = "none" => rc = "0"
                    /\ rc = "0" =>
                          /\ next.h_chan[t].open
                          /\ \A i \in AllSlots :
                                next.h_chan[t].base[i]
                                    <=> (i < raid_bdev.num_base_bdevs
                                         /\ raid_bdev.base_bdev_info[i].desc # NoBdev)
                          /\ [next EXCEPT !.h_chan[t] = NoChan] = cur
                    /\ rc # "0" => next = cur /\ next.h_chan[t] = NoChan

\* A thread's channel on an ONLINE array with a vacant slot: a base channel
\* for a slot with a descriptor, none for the vacant one.
C28_Witness ==
    /\ raid_bdev.allocated /\ raid_bdev.state = "ONLINE"
    /\ \E t \in Threads, i, j \in AllSlots :
          /\ i < raid_bdev.num_base_bdevs /\ j < raid_bdev.num_base_bdevs
          /\ raid_bdev.h_chan[t].open
          /\ raid_bdev.base_bdev_info[i].desc # NoBdev /\ raid_bdev.h_chan[t].base[i]
          /\ raid_bdev.base_bdev_info[j].desc = NoBdev /\ ~raid_bdev.h_chan[t].base[j]
          /\ ~raid_bdev.base_bdev_info[j].remove_scheduled

\* The array is ONLINE while a member it has open carries a superblock
\* other than the one in memory.
OnlineWithStaleSb(rb) ==
    /\ rb.state = "ONLINE"
    /\ \E i \in AllSlots :
          /\ i < rb.num_base_bdevs
          /\ rb.base_bdev_info[i].desc \in Bdevs
          /\ rb.h_disk[rb.base_bdev_info[i].desc] # rb.sb

\* C30: when a superblock write fails, the level module is stopped and the
\* array is not left ONLINE with members whose superblock is stale, for the
\* write of the configure step and for the write after a member was removed.
C30_SbWriteFailureStops ==
    raid_bdev.allocated =>
        \A status \in IoStatus \ {"0"} :
            /\ raid_bdev.h_cfg_write =>
                  \A in \in RegisterInputs :
                      LET next == raid_bdev_configure_write_sb_cb(cur, status, in)
                      IN  ~next.h_started /\ ~OnlineWithStaleSb(next)
            /\ \A s \in AllSlots :
                  raid_bdev.h_pipe[s].ph = "write_sb" =>
                      LET next == raid_bdev_remove_base_bdev_write_sb_cb(cur, s, status)
                      IN  ~next.h_started /\ ~OnlineWithStaleSb(next)

\* C29: a bdev_raid_create request is answered exactly when no add is
\* outstanding any more, and once; the answer is success when no add and
\* nothing before the adds failed, and the array is then in the registry,
\* and an error otherwise, the array then being deleted; remaining never
\* passes below 0, the context is freed once, with the answer, and is not
\* used after that.
C29_RpcCreateOneResponse ==
    LET c == raid_bdev.h_rpc
    IN  c.called =>
            /\ c.responses <= 1 /\ c.freed <= 1
            /\ ~c.underflow /\ ~c.uaf
            /\ (c.responses = 1) <=> (c.pending = {})
            /\ c.freed = (IF c.alloc /\ c.responses = 1 THEN 1 ELSE 0)
            /\ c.responses = 1 =>
                  /\ (c.response = "0") <=> ~c.failed
                  /\ IF c.response = "0"
                     THEN raid_bdev.in_list /\ ~raid_bdev.destroy_started
                     ELSE ~raid_bdev.in_list /\ ~raid_bdev.allocated

\* The add of a base was refused while the callback of an earlier add is
\* still outstanding: the request is not answered yet and remaining counts
\* the outstanding callbacks.
C29_Witness ==
    LET c == raid_bdev.h_rpc
    IN  /\ c.called /\ c.alloc
        /\ c.failed /\ c.status = "EBUSY"
        /\ c.pending # {}
        /\ c.remaining = Cardinality(c.pending)
        /\ c.responses = 0 /\ c.freed = 0
        /\ raid_bdev.in_list

\* The slots of rb whose is_configured flag is set.
ConfiguredSlots(rb) ==
    {s \in 0 .. (rb.num_base_bdevs - 1) : rb.base_bdev_info[s].is_configured}

\* C39: the discovered count is the number of slots whose is_configured
\* flag is set. Binding a slot (raid_bdev_configure_base_bdev_cont) sets
\* the flag and adds exactly one; releasing a bound slot
\* (raid_bdev_free_base_bdev_resource) clears the flag and subtracts exactly
\* one; releasing a slot that is already released changes nothing.
C39_DiscoveredCountsConfigured ==
    raid_bdev.allocated =>
        /\ raid_bdev.num_base_bdevs_discovered
               = Cardinality(ConfiguredSlots(raid_bdev))
        /\ \A s \in 0 .. (raid_bdev.num_base_bdevs - 1) :
              LET freed == raid_bdev_free_base_bdev_resource(cur, s)
                  again == raid_bdev_free_base_bdev_resource(freed, s)
              IN  /\ again = freed
                  /\ ConfiguredSlots(freed) = ConfiguredSlots(cur) \ {s}
                  /\ freed.num_base_bdevs_discovered
                         = Cardinality(ConfiguredSlots(freed))

\* The assertions at the entry of raid_bdev_configure_base_bdev, after its
\* claim, and at the entry of raid_bdev_configure.
BindingAsserts ==
    {"configure_base_desc_null", "configure_base_not_online", "configure_state"}

\* C38: the assertions that guard binding hold on every path:
\* raid_bdev_configure_base_bdev is entered only for a slot with no
\* descriptor and, once the bdev is claimed, only for an array that is not
\* ONLINE, for every add by slot (the add to a vacant slot of an ONLINE
\* degraded array included) and for every examine; raid_bdev_configure is
\* entered only in state CONFIGURING.
C38_BindingAssertsHold ==
    raid_bdev.g_failed \cap BindingAsserts = {}

\* The slot s of rb is bound and configured and no removal is scheduled,
\* and the array counts operational members.
Restored(rb, s, operational) ==
    /\ rb.num_base_bdevs_operational = operational
    /\ rb.base_bdev_info[s].desc = raid_bdev.base_bdev_info[s].desc
    /\ rb.base_bdev_info[s].desc # NoBdev
    /\ rb.base_bdev_info[s].is_configured
    /\ ~rb.base_bdev_info[s].remove_scheduled

\* C36: a benign removal on an ONLINE array that does not go through
\* leaves the accounting as it was before the request: when
\* spdk_bdev_quiesce returns an error in raid_bdev_remove_base_bdev, and
\* when the quiesce callback reports an error, operational has the value it
\* had before the request, the slot is still bound and configured and
\* remove_scheduled is false.
C36_FailedRemoveRestores ==
    (Live /\ raid_bdev.in_list /\ raid_bdev.state = "ONLINE") =>
        /\ \A b \in Bdevs, in \in RemoveInputs :
              LET S == raid_bdev_find_base_info_by_bdev(raid_bdev, b)
              IN  ( /\ S # {}
                    /\ ~raid_bdev.base_bdev_info[first_slot(S)].remove_scheduled
                    /\ raid_bdev.num_base_bdevs_operational
                           > raid_bdev.min_base_bdevs_operational
                    /\ ~in.quiesce_ok )
                  => Restored(raid_bdev_remove_base_bdev(cur, b, TRUE, in),
                              first_slot(S), raid_bdev.num_base_bdevs_operational)
        /\ \A s \in AllSlots, status \in IoStatus \ {"0"} :
              raid_bdev.h_pipe[s].ph = "quiesce"
                  => Restored(raid_bdev_remove_base_bdev_on_quiesced(cur, s, status),
                              s, raid_bdev.num_base_bdevs_operational + 1)

\* C35: remove_scheduled is set only while a removal of the slot is in
\* progress. For an array that exists and is not being destroyed, a slot
\* whose flag is set has its descriptor open and its removal under way;
\* once the removal has finished and the descriptor is closed the flag is
\* false, so the remove of a slot bound later is never silently ignored.
C35_RemoveScheduledOnlyInProgress ==
    ( /\ raid_bdev.in_list
      /\ ~raid_bdev.destroy_started
      /\ raid_bdev.state # "OFFLINE" ) =>
        \A s \in AllSlots :
            raid_bdev.base_bdev_info[s].remove_scheduled
                => /\ raid_bdev.base_bdev_info[s].desc # NoBdev
                   /\ raid_bdev.h_pipe[s].ph # "none"

\* The array rb is out of the registry and freed.
Gone(rb) == ~rb.in_list /\ ~rb.allocated

\* C32: for an array that is not ONLINE, raid_bdev_remove_base_bdev frees
\* the slot in the same step and leaves operational as it was; when that
\* release brings discovered to zero the array is taken out of the registry
\* and freed in the same step, and otherwise it stays; raid_bdev_delete of
\* a CONFIGURING array always ends with the array gone and the delete
\* callback called with status 0.
C32_NonOnlineRemoveAndDelete ==
    (Live /\ raid_bdev.in_list /\ raid_bdev.allocated /\ raid_bdev.state # "ONLINE") =>
        /\ \A b \in Bdevs, in \in RemoveInputs :
              LET S == raid_bdev_find_base_info_by_bdev(raid_bdev, b)
                  s == first_slot(S)
                  released == raid_bdev_free_base_bdev_resource(cur, s)
                  r == raid_bdev_remove_base_bdev(cur, b, TRUE, in)
              IN  (S # {} /\ ~raid_bdev.base_bdev_info[s].remove_scheduled) =>
                      IF released.num_base_bdevs_discovered = 0
                      THEN Gone(r)
                      ELSE /\ r.in_list /\ r.allocated
                           /\ r.base_bdev_info[s].desc = NoBdev
                           /\ ~r.base_bdev_info[s].is_configured
                           /\ r.num_base_bdevs_operational
                                  = raid_bdev.num_base_bdevs_operational
                           /\ r.state = raid_bdev.state
        /\ (raid_bdev.state = "CONFIGURING" /\ ~raid_bdev.destroy_started) =>
              LET r == raid_bdev_delete(cur, DeleteCb)
              IN  /\ Gone(r)
                  /\ r.g_event = [kind |-> "delete", slot |-> 0,
                                  status |-> "0", via |-> "direct"]

\* C33: an array is freed at most once, and no asynchronous completion
\* (the host's unregister and destruct, the io-device-unregister callback,
\* the superblock write of a configuration, the superblock read of an add,
\* the quiesce and unquiesce completions of a removal) runs on an array
\* that has been freed.
C33_NoUseAfterFree ==
    /\ ~raid_bdev.g_double_free
    /\ ~raid_bdev.g_uaf

\* A step in which raid_bdev_configure issues the superblock write of a
\* configuration.
ConfigureStarts ==
    /\ raid_bdev'.h_cfg_write
    /\ raid_bdev'.g_writes > raid_bdev.g_writes

\* C37: at most one configuration is in flight. While the superblock
\* write of a configuration is outstanding the array is CONFIGURING with
\* its module started and no step starts raid_bdev_configure again,
\* whatever is removed or bound meanwhile; an ONLINE array has no
\* configuration write outstanding, so raid_bdev_configure_cont runs at
\* most once for a transition to ONLINE.
C37_OneConfigurationInFlight ==
    /\ []( (raid_bdev.allocated /\ raid_bdev.h_cfg_write)
              => raid_bdev.state = "CONFIGURING" /\ raid_bdev.h_started )
    /\ [][ (raid_bdev.allocated /\ raid_bdev.h_cfg_write) => ~ConfigureStarts ]_vars

\* C40: when an examine finds a valid superblock that names the bdev, no
\* array with the superblock's uuid is in memory and
\* raid_bdev_create_from_sb fails (an array of the same name and another
\* uuid exists, or the level's module refuses the array), the examine
\* drops the base: the process goes on, the registry, the existing array
\* and what the host holds stay as they are, and the examine is signalled
\* done.
C40_FailedCreateFromSbDropsBase ==
    \A b \in Bdevs :
        LET sb == raid_bdev.h_disk[b]
        IN  ( /\ raid_bdev.h_examine[b]
              /\ sb.on /\ sb.uuid_set
              /\ ~KnownArray
              /\ SbEntries(sb, b) # {}
              /\ ~create_ok(raid_bdev, sb.num_base_bdevs, sb.module) )
            => /\ ExamineUnchanged(b, "0")
               /\ \A in \in ConfigureInputs :
                     LET r == raid_bdev_examine_load_sb_cb(cur, b, "0", in)
                     IN  /\ r.h_examine_done[b] = raid_bdev.h_examine_done[b] + 1
                         /\ ~r.h_examine_ctx[b]

\* The callback of the removal of slot s has been invoked in the step
\* that led to rb.
RemoveCbInvoked(rb, s) ==
    rb.g_event.kind = "remove" /\ rb.g_event.slot = s

\* A completion that ends with the callback of the removal of slot s is
\* outstanding in rb: a step of the quiesce / for-each-channel / unquiesce /
\* superblock-write sequence of the slot, the callback being stored in it,
\* or the unregistration of the array that was given the callback.
RemoveCbDue(rb, s) ==
    \/ /\ rb.allocated
       /\ rb.h_pipe[s].ph # "none"
       /\ rb.base_bdev_info[s].remove_scheduled
       /\ rb.base_bdev_info[s].remove_cb
    \/ /\ rb.h_unreg # "none"
       /\ rb.h_unreg_cb = RemoveCb(s)

\* C34: every raid_bdev_remove_base_bdev that returns 0 and was given a
\* callback invokes it, exactly once, on every path: array not ONLINE,
\* ONLINE with a benign removal, ONLINE with a fatal removal, synchronous
\* failure of the quiesce, remove_scheduled already set. When the request
\* returns, its callback has been invoked or a completion that will invoke
\* it is outstanding, and not both; a request for a slot whose removal is
\* already scheduled, whose callback is not stored, has invoked it.
C34_RemoveCallbackDelivered ==
    (Live /\ raid_bdev.in_list) =>
        \A b \in Bdevs, in \in RemoveInputs :
            LET S == raid_bdev_find_base_info_by_bdev(raid_bdev, b)
                s == first_slot(S)
                r == raid_bdev_remove_base_bdev(cur, b, TRUE, in)
            IN  raid_bdev_remove_base_bdev_rc(cur, b) = "0" =>
                    IF raid_bdev.base_bdev_info[s].remove_scheduled
                    THEN RemoveCbInvoked(r, s)
                    ELSE RemoveCbInvoked(r, s) # RemoveCbDue(r, s)

\* The control-plane state of the array: the registry, the state field, the
\* counters and the slots with their descriptor, name and flags.
ControlView(rb) ==
    [ in_list |-> rb.in_list, allocated |-> rb.allocated, state |-> rb.state,
      destroy_started |-> rb.destroy_started,
      num_base_bdevs_discovered |-> rb.num_base_bdevs_discovered,
      num_base_bdevs_operational |-> rb.num_base_bdevs_operational,
      base_bdev_info |-> rb.base_bdev_info ]

\* C31: every mutation of control-plane state runs on the app thread. A
\* step on another thread leaves the registry, the state, the counters
\* and the slots as they are: a destruct that arrives on an executor thread
\* only queues the message for the app thread, and the channel callbacks
\* of the executor threads read the slot descriptors and write their own
\* channel only.
C31_ControlPlaneOnAppThread ==
    [][ raid_bdev'.g_thread # AppThread
            => ControlView(raid_bdev') = ControlView(raid_bdev) ]_vars

\* A destruct has arrived on an executor thread for an array whose removed
\* slot is still bound: the message is queued and nothing is released.
C31_Witness ==
    /\ raid_bdev.g_thread # AppThread
    /\ raid_bdev.h_msg
    /\ raid_bdev.h_unreg = "requested"
    /\ raid_bdev.allocated /\ raid_bdev.in_list
    /\ \E s \in AllSlots : /\ raid_bdev.base_bdev_info[s].remove_scheduled
                            /\ raid_bdev.base_bdev_info[s].desc # NoBdev

====
